---- MODULE Spec2Model ----
(***************************************************************************)
(* Model of the turbo tailoring pipeline (turbo-pipeline.js) and of the    *)
(* experience formatter (pdf-ats-turbo.js).                                *)
(*                                                                         *)
(* A JavaScript string is a sequence of one-character strings; the code    *)
(* point U+2022 (the round bullet) is the atom BulletGlyph.  A JavaScript  *)
(* Map is a sequence of [key, value] records in insertion order.           *)
(***************************************************************************)
EXTENDS Integers, Sequences, FiniteSets, TLC

VARIABLES
    keywordCache,       \* turbo-pipeline.js:17  the Map, in insertion order
    ReliableExtractor,  \* global.ReliableExtractor is registered
    KeywordExtractor,   \* global.KeywordExtractor is registered
    TailorUniversal,    \* global.TailorUniversal is registered
    history,            \* ghost: every insertion into the cache, oldest first
    clearedAt,          \* ghost: Len(history) at the latest clearCache()
    nextText,           \* driver: how many job texts of JobTexts were used so far
    last,               \* the latest call of turboExtractKeywords or clearCache
    pipe,               \* the executeTurboPipeline invocation in flight
    tasks,              \* runParallel: the tasks handed in
    settled,            \* runParallel: the tasks whose awaited value settled, in that order
    wrapped,            \* runParallel: per task, the promise of its wrapper
    rp,                 \* runParallel: the returned promise
    fmtIn,              \* formatExperienceWithKeywords: the arguments
    fmtOut,             \* formatExperienceWithKeywords: the return value
    callArgs,           \* a call of one of the other functions: its arguments
    callResult          \* a call of one of the other functions: its return value

vars == <<keywordCache, ReliableExtractor, KeywordExtractor, TailorUniversal,
          history, clearedAt, nextText, last, pipe,
          tasks, settled, wrapped, rp, fmtIn, fmtOut, callArgs, callResult>>

cacheVars == <<keywordCache, history, clearedAt, nextText, last>>
globalVars == <<ReliableExtractor, KeywordExtractor, TailorUniversal>>
parallelVars == <<tasks, settled, wrapped, rp>>
formatVars == <<fmtIn, fmtOut>>
callVars == <<callArgs, callResult>>

-----------------------------------------------------------------------------
(* Strings *)

Min(a, b) == IF a < b THEN a ELSE b
Max(a, b) == IF a > b THEN a ELSE b

BulletGlyph == "U+2022"

LowerAlpha == <<"a","b","c","d","e","f","g","h","i","j","k","l","m",
                "n","o","p","q","r","s","t","u","v","w","x","y","z">>
UpperAlpha == <<"A","B","C","D","E","F","G","H","I","J","K","L","M",
                "N","O","P","Q","R","S","T","U","V","W","X","Y","Z">>
Digits == <<"0","1","2","3","4","5","6","7","8","9">>

Range(s) == {s[i] : i \in 1..Len(s)}

IndexIn(c, s) == CHOOSE i \in 1..Len(s) : s[i] = c

LowerSet == Range(LowerAlpha)
UpperSet == Range(UpperAlpha)
DigitSet == Range(Digits)
SpaceSet == {" ", "\n", "\t", "\r"}

UpperToLower == [c \in UpperSet |-> LowerAlpha[IndexIn(c, UpperAlpha)]]

\* String.prototype.toLowerCase, one character
ToLowerChar(c) == IF c \in UpperSet THEN UpperToLower[c] ELSE c

\* String.prototype.toLowerCase
ToLowerCase(s) == [i \in 1..Len(s) |-> ToLowerChar(s[i])]

\* the regular-expression class \s
IsSpace(c) == c \in SpaceSet

\* String.prototype.charCodeAt(0) of a one-character string
CharCode(c) ==
    IF c \in LowerSet THEN 96 + IndexIn(c, LowerAlpha)
    ELSE IF c \in UpperSet THEN 64 + IndexIn(c, UpperAlpha)
    ELSE IF c \in DigitSet THEN 47 + IndexIn(c, Digits)
    ELSE IF c = BulletGlyph THEN 8226
    ELSE CASE c = "\t" -> 9 [] c = "\n" -> 10 [] c = "\r" -> 13 [] c = " " -> 32
           [] c = "*" -> 42 [] c = "," -> 44 [] c = "-" -> 45 [] c = "." -> 46
           [] c = "/" -> 47 [] c = ":" -> 58 [] c = ";" -> 59

\* Array.prototype.slice(from, to) and String.prototype.slice, 0-based, to exclusive
Slice(s, from, to) == SubSeq(s, Min(from, Len(s)) + 1, Min(to, Len(s)))

\* slice(from) to the end
SliceFrom(s, from) == Slice(s, from, Len(s))

\* String.prototype.includes
Includes(s, sub) ==
    \E i \in 0..(Len(s) - Len(sub)) : SubSeq(s, i + 1, i + Len(sub)) = sub

\* String.prototype.split(/\s+/): a run of white space is one separator; white
\* space at either end of the string leaves an empty string at that end
SplitWs(s) ==
    LET n == Len(s)
        starts == {i \in 1..n : ~IsSpace(s[i]) /\ (i = 1 \/ IsSpace(s[i - 1]))}
        EndOf(i) == CHOOSE j \in i..n :
                        /\ \A k \in i..j : ~IsSpace(s[k])
                        /\ (j = n \/ IsSpace(s[j + 1]))
        Nth(k) == CHOOSE i \in starts : Cardinality({j \in starts : j < i}) = k - 1
        words == [k \in 1..Cardinality(starts) |-> SubSeq(s, Nth(k), EndOf(Nth(k)))]
        lead == IF n = 0 \/ IsSpace(s[1]) THEN <<<<>>>> ELSE <<>>
        trail == IF n > 0 /\ IsSpace(s[n]) THEN <<<<>>>> ELSE <<>>
    IN  lead \o words \o trail

\* Array.prototype.join with a separator string
RECURSIVE JoinFirst(_, _, _)
JoinFirst(parts, sep, n) ==
    IF n = 0 THEN <<>>
    ELSE IF n = 1 THEN parts[1]
    ELSE JoinFirst(parts, sep, n - 1) \o sep \o parts[n]

Join(parts, sep) == JoinFirst(parts, sep, Len(parts))

-----------------------------------------------------------------------------
(* turbo-pipeline.js: keyword extraction *)

MAX_CACHE_SIZE == 50
MIN_JOB_LENGTH == 50
DEFAULT_MAX_KEYWORDS == 35
KEY_PREFIX_LENGTH == 500
TIMING_TOTAL == 2400

\* a key hardened with a digest of the content (here: how many "x" it holds)
getCacheKey_Content(text) ==
    <<Len(Slice(text, 0, KEY_PREFIX_LENGTH)), Len(text),
      CharCode(text[1]) + 1000 * Cardinality({i \in 1..Len(text) : text[i] = "x"})>>

\* getCacheKey: prefix length, length and first character code, joined by "_"
getCacheKey(text) ==
    <<Len(Slice(text, 0, KEY_PREFIX_LENGTH)), Len(text), CharCode(text[1])>>

stopWords == {
    <<"a">>, <<"a","n">>, <<"t","h","e">>, <<"a","n","d">>, <<"o","r">>, <<"b","u","t">>,
    <<"i","n">>, <<"o","n">>, <<"a","t">>, <<"t","o">>, <<"f","o","r">>, <<"o","f">>,
    <<"w","i","t","h">>, <<"b","y">>, <<"f","r","o","m">>, <<"a","s">>, <<"i","s">>,
    <<"w","a","s">>, <<"a","r","e">>, <<"w","e","r","e">>, <<"b","e","e","n">>, <<"b","e">>,
    <<"h","a","v","e">>, <<"h","a","s">>, <<"h","a","d">>, <<"d","o">>, <<"d","o","e","s">>,
    <<"d","i","d">>, <<"w","i","l","l">>, <<"w","o","u","l","d">>, <<"c","o","u","l","d">>,
    <<"s","h","o","u","l","d">>, <<"m","a","y">>, <<"m","i","g","h","t">>, <<"m","u","s","t">>,
    <<"c","a","n">>, <<"n","e","e","d">>, <<"t","h","i","s">>, <<"t","h","a","t">>,
    <<"y","o","u">>, <<"y","o","u","r">>, <<"w","e">>, <<"o","u","r">>, <<"t","h","e","y">>,
    <<"t","h","e","i","r">>, <<"w","o","r","k">>, <<"w","o","r","k","i","n","g">>,
    <<"j","o","b">>, <<"p","o","s","i","t","i","o","n">>, <<"r","o","l","e">>,
    <<"t","e","a","m">>, <<"c","o","m","p","a","n","y">>,
    <<"o","p","p","o","r","t","u","n","i","t","y">>, <<"l","o","o","k","i","n","g">>,
    <<"s","e","e","k","i","n","g">>, <<"r","e","q","u","i","r","e","d">>,
    <<"r","e","q","u","i","r","e","m","e","n","t","s">>, <<"p","r","e","f","e","r","r","e","d">>,
    <<"a","b","i","l","i","t","y">>, <<"a","b","l","e">>,
    <<"e","x","p","e","r","i","e","n","c","e">>, <<"y","e","a","r","s">>, <<"y","e","a","r">>,
    <<"i","n","c","l","u","d","i","n","g">>, <<"n","e","w">> }

techBoost == {
    <<"p","y","t","h","o","n">>, <<"j","a","v","a">>,
    <<"j","a","v","a","s","c","r","i","p","t">>, <<"t","y","p","e","s","c","r","i","p","t">>,
    <<"s","q","l">>, <<"a","w","s">>, <<"a","z","u","r","e">>, <<"g","c","p">>,
    <<"k","u","b","e","r","n","e","t","e","s">>, <<"d","o","c","k","e","r">>,
    <<"t","e","r","r","a","f","o","r","m">>, <<"r","e","a","c","t">>,
    <<"a","n","g","u","l","a","r">>, <<"v","u","e">>, <<"n","o","d","e">>,
    <<"s","p","a","r","k">>, <<"k","a","f","k","a">>, <<"a","i","r","f","l","o","w">>,
    <<"t","a","b","l","e","a","u">>, <<"s","n","o","w","f","l","a","k","e">>,
    <<"m","a","c","h","i","n","e"," ","l","e","a","r","n","i","n","g">>,
    <<"d","e","e","p"," ","l","e","a","r","n","i","n","g">>, <<"a","i">>, <<"m","l">>,
    <<"n","l","p">>, <<"a","g","i","l","e">>, <<"s","c","r","u","m">>,
    <<"c","i","/","c","d">>, <<"d","e","v","o","p","s">>, <<"a","p","i">>,
    <<"r","e","s","t">>, <<"g","r","a","p","h","q","l">>,
    <<"m","i","c","r","o","s","e","r","v","i","c","e","s">> }

\* .replace(/[^a-z0-9\s\-\/]/g, ' '), one character
StripChar(c) ==
    IF c \in LowerSet \/ c \in DigitSet \/ IsSpace(c) \/ c = "-" \/ c = "/"
    THEN c ELSE " "

KeepWord(w) == Len(w) >= 3 /\ w \notin stopWords

\* text.toLowerCase().replace(...).split(/\s+/).filter(...)
Tokenize(text) ==
    LET lowered == ToLowerCase(text)
        stripped == [i \in 1..Len(lowered) |-> StripChar(lowered[i])]
    IN  SelectSeq(SplitWs(stripped), KeepWord)

\* the places of a list where a value is met for the first time, in order: the
\* keys of a Map filled by set() in list order, and the elements of a Set
FirstPlaces(list) ==
    LET firsts == {i \in 1..Len(list) : \A j \in 1..(i - 1) : list[j] # list[i]}
        Nth(k) == CHOOSE i \in firsts : Cardinality({j \in firsts : j < i}) = k - 1
    IN  [k \in 1..Cardinality(firsts) |-> Nth(k)]

\* the value freq holds for a word met `times` times: each meeting does
\* count = (freq.get(word) || 0) + 1; freq.set(word, count * boost)
RECURSIVE CountWord(_, _)
CountWord(times, boost) ==
    IF times = 0 THEN 0 ELSE (CountWord(times - 1, boost) + 1) * boost

\* words.forEach(...): the Map freq as a sequence of [key, value], in insertion order
CountWords(words) ==
    LET places == FirstPlaces(words)
        Times(w) == Cardinality({i \in 1..Len(words) : words[i] = w})
        Boost(w) == IF w \in techBoost THEN 3 ELSE 1
    IN  [k \in 1..Len(places) |->
            [key |-> words[places[k]],
             value |-> CountWord(Times(words[places[k]]), Boost(words[places[k]]))]]

\* [...freq.entries()].sort((a, b) => b[1] - a[1]): descending, equal values keep
\* their order (Array.prototype.sort is stable)
SortEntries(entries) ==
    LET n == Len(entries)
        Before(i) == {j \in 1..n : \/ entries[j].value > entries[i].value
                                   \/ (entries[j].value = entries[i].value /\ j < i)}
        At(p) == CHOOSE i \in 1..n : Cardinality(Before(i)) = p - 1
    IN  [p \in 1..n |-> entries[At(p)]]

\* Math.ceil(n * 0.35); the double product rounds up to the same integer for n < 200
Ceil35(n) == (35 * n + 99) \div 100

\* Math.floor in place of Math.ceil
FallbackHighCount_Floor(n) == (35 * n) \div 100

\* the tier sizes of ultraFastExtraction
FallbackHighCount(n) == Ceil35(n)
FallbackMediumCount(n) == Ceil35(n)

\* the tier sizes of the KeywordExtractor branch of turboExtractKeywords
GenericHighCount(n) == Min(12, Ceil35(n))
GenericMediumCount(n) == Min(10, Ceil35(n))

EmptyKeywordSet ==
    [all |-> <<>>, highPriority |-> <<>>, mediumPriority |-> <<>>, lowPriority |-> <<>>,
     total |-> 0]

\* the medium tier sliced up to mediumCount instead of highCount + mediumCount
ultraFastExtraction_MediumEnd(text, maxKeywords) ==
    LET sorted == Slice([i \in 1..Len(SortEntries(CountWords(Tokenize(text)))) |->
                            SortEntries(CountWords(Tokenize(text)))[i].key], 0, maxKeywords)
        highCount == Ceil35(Len(sorted))
        mediumCount == Ceil35(Len(sorted))
    IN  [all |-> sorted,
         highPriority |-> Slice(sorted, 0, highCount),
         mediumPriority |-> Slice(sorted, highCount, mediumCount),
         lowPriority |-> SliceFrom(sorted, highCount + mediumCount),
         total |-> Len(sorted)]

\* ultraFastExtraction(text, maxKeywords)
ultraFastExtraction(text, maxKeywords) ==
    LET words == Tokenize(text)
        freq == CountWords(words)
        ranked == SortEntries(freq)
        sorted == Slice([i \in 1..Len(ranked) |-> ranked[i].key], 0, maxKeywords)
        highCount == FallbackHighCount(Len(sorted))
        mediumCount == FallbackMediumCount(Len(sorted))
    IN  [all |-> sorted,
         highPriority |-> Slice(sorted, 0, highCount),
         mediumPriority |-> Slice(sorted, highCount, highCount + mediumCount),
         lowPriority |-> SliceFrom(sorted, highCount + mediumCount),
         total |-> Len(sorted)]

-----------------------------------------------------------------------------
(* External collaborators.  reliable-extractor.js, keyword-extractor.js and *)
(* tailor-universal.js are not among the sources; they are modelled from    *)
(* the interface the specification gives them: Extractor.extract(text,      *)
(* maxKeywords) -> KeywordSet, ranked, without duplicates, at most          *)
(* maxKeywords long, tiers of ceil(35%), ceil(35%) and the remainder.       *)

\* a list without its repetitions
Distinct(list) == [k \in 1..Len(FirstPlaces(list)) |-> list[FirstPlaces(list)[k]]]

\* the ranked list an external extractor returns: the distinct terms as met
ExternalKeywords(text, maxKeywords) == Slice(Distinct(Tokenize(text)), 0, maxKeywords)

\* global.ReliableExtractor.extractReliableKeywords(text, maxKeywords)
extractReliableKeywords(text, maxKeywords) ==
    LET list == ExternalKeywords(text, maxKeywords)
        h == Ceil35(Len(list))
    IN  [all |-> list,
         highPriority |-> Slice(list, 0, h),
         mediumPriority |-> Slice(list, h, h + h),
         lowPriority |-> SliceFrom(list, h + h),
         total |-> Len(list)]

\* global.KeywordExtractor.extractKeywords(text, maxKeywords)
extractKeywords(text, maxKeywords) == [all |-> ExternalKeywords(text, maxKeywords)]

-----------------------------------------------------------------------------
(* turbo-pipeline.js: turboExtractKeywords *)

\* the length test off by one
TooShort_OffByOne(job) == job.absent \/ Len(job.chars) < MIN_JOB_LENGTH - 1

\* if (!jobDescription || jobDescription.length < 50)
TooShort(job) == job.absent \/ Len(job.chars) < MIN_JOB_LENGTH

\* { ...result, timing }
WithTiming(result, timing) ==
    [all |-> result.all, highPriority |-> result.highPriority,
     mediumPriority |-> result.mediumPriority, lowPriority |-> result.lowPriority,
     total |-> result.total, timing |-> timing]

\* a returned value without its timing
KeywordsOf(value) ==
    [all |-> value.all, highPriority |-> value.highPriority,
     mediumPriority |-> value.mediumPriority, lowPriority |-> value.lowPriority,
     total |-> value.total]

\* the KeywordExtractor branch
GenericResult(text, maxKeywords) ==
    LET extracted == extractKeywords(text, maxKeywords)
        highCount == GenericHighCount(Len(extracted.all))
        mediumCount == GenericMediumCount(Len(extracted.all))
    IN  [all |-> Slice(extracted.all, 0, maxKeywords),
         highPriority |-> Slice(extracted.all, 0, highCount),
         mediumPriority |-> Slice(extracted.all, highCount, highCount + mediumCount),
         lowPriority |-> SliceFrom(extracted.all, highCount + mediumCount),
         total |-> Len(extracted.all)]

\* which extractor a miss uses
ExtractionSource_GenericFirst(reliable, generic) ==
    IF generic THEN "generic" ELSE IF reliable THEN "reliable" ELSE "fallback"

ExtractionSource(reliable, generic) ==
    IF reliable THEN "reliable" ELSE IF generic THEN "generic" ELSE "fallback"

\* the result of a miss
ExtractionResult(source, text, maxKeywords) ==
    IF source = "reliable" THEN extractReliableKeywords(text, maxKeywords)
    ELSE IF source = "generic" THEN GenericResult(text, maxKeywords)
    ELSE ultraFastExtraction(text, maxKeywords)

\* Map.prototype.has / get: the place of a key in the Map, 0 when absent
MapIndex(m, k) ==
    IF \E i \in 1..Len(m) : m[i].key = k
    THEN CHOOSE i \in 1..Len(m) : m[i].key = k
    ELSE 0

\* Map.prototype.set: an existing key keeps its place, a new key goes last
MapSet(m, k, v) ==
    IF MapIndex(m, k) > 0
    THEN [m EXCEPT ![MapIndex(m, k)] = [key |-> k, value |-> v]]
    ELSE Append(m, [key |-> k, value |-> v])

\* the size test with > in place of >=
CachePut_EvictLate(cache, key, result) ==
    LET kept == IF Len(cache) > MAX_CACHE_SIZE THEN Tail(cache) ELSE cache
    IN  Append(kept, [key |-> key, value |-> result])

\* the newest key deleted in place of the oldest
CachePut_EvictNewest(cache, key, result) ==
    LET kept == IF Len(cache) >= MAX_CACHE_SIZE THEN SubSeq(cache, 1, Len(cache) - 1)
                ELSE cache
    IN  Append(kept, [key |-> key, value |-> result])

\* if (keywordCache.size >= MAX_CACHE_SIZE) delete the first key; then set
CachePut(cache, key, result) ==
    LET kept == IF Len(cache) >= MAX_CACHE_SIZE THEN Tail(cache) ELSE cache
    IN  MapSet(kept, key, result)

\* return { ...keywordCache.get(cacheKey), timing: ... }
CacheHit(cache, key, elapsed) == WithTiming(cache[MapIndex(cache, key)].value, elapsed)

NoKey == <<0, 0, 0>>

\* turboExtractKeywords(jobDescription, maxKeywords): what it returns and the cache
\* it leaves.  The function has no await, so a call runs to its end in one step.
\* extractorThrows: the registered extractor raises; elapsed: the clock difference.
turboExtractKeywords(cache, job, maxKeywords, reliable, generic, extractorThrows, elapsed) ==
    IF TooShort(job)
    THEN [outcome |-> "returned", value |-> WithTiming(EmptyKeywordSet, 0), cache |-> cache,
          path |-> "short", source |-> "none", key |-> NoKey]
    ELSE LET cacheKey == getCacheKey(job.chars)
             source == ExtractionSource(reliable, generic)
         IN  IF MapIndex(cache, cacheKey) > 0
             THEN [outcome |-> "returned", value |-> CacheHit(cache, cacheKey, elapsed),
                   cache |-> cache, path |-> "hit", source |-> "none", key |-> cacheKey]
             ELSE IF source # "fallback" /\ extractorThrows
             THEN [outcome |-> "rejected", value |-> WithTiming(EmptyKeywordSet, 0),
                   cache |-> cache, path |-> "miss", source |-> source, key |-> cacheKey]
             ELSE LET result == ExtractionResult(source, job.chars, maxKeywords)
                  IN  [outcome |-> "returned", value |-> WithTiming(result, elapsed),
                       cache |-> CachePut(cache, cacheKey, result),
                       path |-> "miss", source |-> source, key |-> cacheKey]

-----------------------------------------------------------------------------
(* turbo-pipeline.js: turboTailorCV and fastTailorFallback *)

MAX_SKILLS_ADDED == 15

IsLineTerminator(c) == c \in {"\n", "\r"}

\* does /^(name)[\s:]*$/im match at the 0-based position p of text
HeaderAt(text, p, name) ==
    LET n == Len(text)
        after == p + Len(name)
    IN  /\ after <= n
        /\ p = 0 \/ IsLineTerminator(text[p])
        /\ ToLowerCase(SubSeq(text, p + 1, after)) = ToLowerCase(name)
        /\ \E e \in after..n :
               /\ \A k \in (after + 1)..e : IsSpace(text[k]) \/ text[k] = ":"
               /\ e = n \/ IsLineTerminator(text[e + 1])

\* RegExp.prototype.exec of /^(names)[\s:]*$/im: the index of the match, -1 for null
HeaderIndex(text, names) ==
    LET hits == {p \in 0..Len(text) : \E name \in names : HeaderAt(text, p, name)}
    IN  IF hits = {} THEN -1 ELSE CHOOSE p \in hits : \A q \in hits : p <= q

SkillsHeaders ==
    { <<"S","K","I","L","L","S">>,
      <<"T","E","C","H","N","I","C","A","L"," ","S","K","I","L","L","S">>,
      <<"C","O","R","E"," ","S","K","I","L","L","S">> }

EducationHeaders ==
    { <<"E","D","U","C","A","T","I","O","N">>, <<"A","C","A","D","E","M","I","C">> }

\* the search for the line break started at the beginning of the text
IndexOfNewline_FromStart(text, from) ==
    LET hits == {i \in 0..(Len(text) - 1) : text[i + 1] = "\n"}
    IN  IF hits = {} THEN -1 ELSE CHOOSE i \in hits : \A j \in hits : i <= j

\* String.prototype.indexOf("\n", from): 0-based, -1 when there is none
IndexOfNewline(text, from) ==
    LET hits == {i \in from..(Len(text) - 1) : text[i + 1] = "\n"}
    IN  IF hits = {} THEN -1 ELSE CHOOSE i \in hits : \A j \in hits : i <= j

CommaSpace == <<",", " ">>

\* fastTailorFallback(cvText, keywords)
fastTailorFallback(cvText, keywords) ==
    LET cvLower == ToLowerCase(cvText)
        IsMissing(kw) == ~Includes(cvLower, ToLowerCase(kw))
        missing == SelectSeq(keywords.all, IsMissing)
        skillsToAdd == Slice(missing, 0, MAX_SKILLS_ADDED)
        skillsIndex == HeaderIndex(cvText, SkillsHeaders)
        insertPos == IndexOfNewline(cvText, skillsIndex)
        skillsLine == <<"\n">> \o Join(skillsToAdd, CommaSpace) \o <<"\n">>
        educationIndex == HeaderIndex(cvText, EducationHeaders)
        newSkillsSection ==
            <<"\n", "S", "K", "I", "L", "L", "S", "\n">> \o Join(skillsToAdd, CommaSpace)
                \o <<"\n", "\n">>
    IN  IF missing = <<>>
        THEN [tailoredCV |-> cvText, injectedKeywords |-> <<>>, total |-> 0]
        ELSE IF skillsIndex >= 0
        THEN IF insertPos > -1
             THEN [tailoredCV |-> Slice(cvText, 0, insertPos + 1) \o skillsLine
                                      \o SliceFrom(cvText, insertPos + 1),
                   injectedKeywords |-> skillsToAdd, total |-> Len(skillsToAdd)]
             ELSE [tailoredCV |-> cvText, injectedKeywords |-> <<>>, total |-> 0]
        ELSE IF educationIndex >= 0
        THEN [tailoredCV |-> Slice(cvText, 0, educationIndex) \o newSkillsSection
                                 \o SliceFrom(cvText, educationIndex),
              injectedKeywords |-> skillsToAdd, total |-> Len(skillsToAdd)]
        ELSE [tailoredCV |-> cvText \o newSkillsSection,
              injectedKeywords |-> skillsToAdd, total |-> Len(skillsToAdd)]

\* global.TailorUniversal.tailorCV(cvText, keywords, options): not among the
\* sources; by its interface it returns a TailoringResult.  Here it puts every
\* missing keyword on a last line of the text.
tailorCV(cvText, keywords) ==
    LET cvLower == ToLowerCase(cvText)
        IsMissing(kw) == ~Includes(cvLower, ToLowerCase(kw))
        missing == SelectSeq(keywords.all, IsMissing)
    IN  [tailoredCV |-> IF missing = <<>> THEN cvText
                        ELSE cvText \o <<"\n">> \o Join(missing, CommaSpace),
         injectedKeywords |-> missing, total |-> Len(missing)]

\* if (!cvText || !keywords?.all?.length)
NothingToTailor(cv, keywords) == cv.absent \/ cv.chars = <<>> \/ Len(keywords.all) = 0

\* turboTailorCV(cvText, keywords, options) up to its await: what it is about to
\* return, or that it waits for TailorUniversal.tailorCV
turboTailorCV(cv, keywords, tailorRegistered) ==
    IF NothingToTailor(cv, keywords)
    THEN [waits |-> FALSE, tailoredCV |-> cv, injectedKeywords |-> <<>>, total |-> 0]
    ELSE IF tailorRegistered
    THEN [waits |-> TRUE, tailoredCV |-> cv, injectedKeywords |-> <<>>, total |-> 0]
    ELSE LET result == fastTailorFallback(cv.chars, keywords)
         IN  [waits |-> FALSE, tailoredCV |-> [absent |-> FALSE, chars |-> result.tailoredCV],
              injectedKeywords |-> result.injectedKeywords, total |-> result.total]

-----------------------------------------------------------------------------
(* The job descriptions the calls are made with *)

NumTexts == 53          \* job texts with a cacheable length
RepeatTexts == 3        \* the first texts are the ones asked for again
EarlyTexts == 5         \* repeated and too-short calls come while at most so many
LateTexts == 2          \* texts were used, or at most so many are still unused
MaxInserts == 54        \* insertions into the cache in one run
MaxTokens == 36         \* distinct terms of the longest job text
SmallMaxKeywords == 2   \* a maxKeywords below the default
LongTextAt == 8         \* the place of the two longest job texts among the texts

TokenLetters == <<"k", "m", "p", "q", "v", "z", "g">>

\* the i-th term of the vocabulary: three letters, no stop word, no boosted term
Tok(i) ==
    <<TokenLetters[((i - 1) \div Len(TokenLetters)) + 1],
      TokenLetters[((i - 1) % Len(TokenLetters)) + 1], "x">>

Dots(n) == [i \in 1..n |-> "."]

\* the words separated by blanks, filled up with full stops to length n
Padded(words, n) ==
    LET body == Join(words, <<" ">>) IN body \o Dots(n - Len(body))

Toks(n) == [i \in 1..n |-> Tok(i)]

\* "SQL and sql, AWS kkx kkx kkx kmx to ci/cd x-y" and full stops: upper case,
\* punctuation, stop words, short words, repeated and boosted terms
SpecialText ==
    Padded(<<<<"S","Q","L">>, <<"a","n","d">>, <<"s","q","l",",">>, <<"A","W","S">>,
             Tok(1), Tok(1), Tok(1), Tok(2), <<"t","o">>, <<"c","i","/","c","d">>,
             <<"x","-","y">>>>, 60)

\* two texts of the same length and first character, of different content
CollideA == Padded(<<Tok(1), Tok(2), Tok(3)>>, MIN_JOB_LENGTH)
CollideB == Padded(<<Tok(4), Tok(1)>>, MIN_JOB_LENGTH)

JobText(i) ==
    IF i = 1 THEN SpecialText
    ELSE IF i = 2 THEN CollideA
    ELSE IF i = 3 THEN CollideB
    ELSE IF i = LongTextAt THEN Padded(Toks(MaxTokens - 1), 4 * MaxTokens)
    ELSE IF i = LongTextAt + 1 THEN Padded(Toks(MaxTokens), 4 * MaxTokens + 1)
    ELSE Padded(Toks(i % 4), MIN_JOB_LENGTH + i)

JobTexts == [i \in 1..NumTexts |-> JobText(i)]

\* the driver makes its repeated calls before the cache fills and around eviction
Busy == nextText <= EarlyTexts \/ nextText >= NumTexts - LateTexts

Present(chars) == [absent |-> FALSE, chars |-> chars]

\* absent, empty, and one character below the minimum length
SmallJobs ==
    { [absent |-> TRUE, chars |-> <<>>],
      Present(<<>>),
      Present(Padded(<<Tok(1), Tok(2)>>, MIN_JOB_LENGTH - 1)) }

Elapsed == {0, 4}

NoCall ==
    [op |-> "none", job |-> Present(<<>>), maxKeywords |-> 0, outcome |-> "none",
     value |-> WithTiming(EmptyKeywordSet, 0), path |-> "none", source |-> "none",
     key |-> NoKey]

NoCv == [absent |-> TRUE, chars |-> <<>>]

NoArgs == [fn |-> "none"]

NotCalled == [done |-> FALSE]

NoTailoring == [tailoredCV |-> NoCv, injectedKeywords |-> <<>>, total |-> 0]

\* executeTurboPipeline before it is called
IdlePipe ==
    [pc |-> "Idle", run |-> 0, job |-> Present(<<>>), cv |-> NoCv, startCache |-> <<>>,
     extractOutcome |-> "none", keywords |-> WithTiming(EmptyKeywordSet, 0),
     waits |-> FALSE, tailor |-> NoTailoring,
     success |-> FALSE, error |-> "", totalTime |-> 0, meetsTarget |-> FALSE]

-----------------------------------------------------------------------------
(* Direct calls of TurboPipeline.turboExtractKeywords and clearCache *)

Init ==
    /\ keywordCache = <<>>
    /\ ReliableExtractor \in BOOLEAN
    /\ KeywordExtractor \in BOOLEAN
    /\ TailorUniversal = FALSE
    /\ history = <<>>
    /\ clearedAt = 0
    /\ nextText = 0
    /\ last = NoCall
    /\ pipe = IdlePipe
    /\ tasks = <<>> /\ settled = <<>> /\ wrapped = <<>> /\ rp = [state |-> "idle"]
    /\ fmtIn = [experienceText |-> <<>>, keywords |-> <<>>]
    /\ fmtOut = [done |-> FALSE]
    /\ callArgs = NoArgs /\ callResult = NotCalled

\* one call turboExtractKeywords(job, maxKeywords); fresh: job is the next unused text
ExtractEffect(job, maxKeywords, throws, elapsed, fresh) ==
    \E r \in {turboExtractKeywords(keywordCache, job, maxKeywords, ReliableExtractor,
                                   KeywordExtractor, throws, elapsed)} :
    LET inserted == r.path = "miss" /\ r.outcome = "returned"
    IN  /\ inserted => Len(history) < MaxInserts
        /\ keywordCache' = r.cache
        /\ history' = IF inserted
                      THEN Append(history, [key |-> r.key, source |-> r.source,
                                            length |-> Len(job.chars),
                                            first |-> job.chars[1],
                                            result |-> KeywordsOf(r.value)])
                      ELSE history
        /\ last' = [op |-> "extract", job |-> job, maxKeywords |-> maxKeywords,
                    outcome |-> r.outcome, value |-> r.value, path |-> r.path,
                    source |-> r.source, key |-> r.key]
        /\ nextText' = IF fresh THEN nextText + 1 ELSE nextText
        /\ UNCHANGED <<clearedAt, globalVars, parallelVars, formatVars, callVars>>

Extract(job, maxKeywords, throws, elapsed, fresh) ==
    ExtractEffect(job, maxKeywords, throws, elapsed, fresh) /\ UNCHANGED pipe

\* the driver varies maxKeywords and the clock while the cache is nearly empty
Early == nextText <= EarlyTexts

MaxKeywordsChoices == {DEFAULT_MAX_KEYWORDS, SmallMaxKeywords}

ExtractSmall ==
    /\ Busy
    /\ \E job \in SmallJobs : Extract(job, DEFAULT_MAX_KEYWORDS, FALSE, 0, FALSE)

\* a text used before is asked for again: a hit, or a miss once it was evicted
ExtractRepeat ==
    /\ Busy
    /\ \E i \in 1..Min(nextText, RepeatTexts), throws \in BOOLEAN, elapsed \in Elapsed,
          maxKeywords \in MaxKeywordsChoices :
        /\ (maxKeywords # DEFAULT_MAX_KEYWORDS \/ elapsed # 0) => Early
        /\ Extract(Present(JobTexts[i]), maxKeywords, throws, elapsed, FALSE)

\* the next text is asked for; the first one with either maxKeywords, and the
\* registered extractor may raise on the first text that is not asked for again
ExtractNext ==
    /\ nextText < NumTexts
    /\ \E throws \in BOOLEAN, maxKeywords \in MaxKeywordsChoices :
        /\ maxKeywords # DEFAULT_MAX_KEYWORDS => nextText = 0
        /\ throws => nextText = RepeatTexts
        /\ Extract(Present(JobTexts[nextText + 1]), maxKeywords, throws, 0, TRUE)

\* TurboPipeline.clearCache()
ClearCache ==
    /\ nextText = NumTexts
    /\ keywordCache # <<>>
    /\ keywordCache' = <<>>
    /\ clearedAt' = Len(history)
    /\ last' = [NoCall EXCEPT !.op = "clearCache", !.outcome = "returned"]
    /\ UNCHANGED <<history, nextText, pipe, globalVars, parallelVars, formatVars, callVars>>

Next == ExtractSmall \/ ExtractRepeat \/ ExtractNext \/ ClearCache

Spec == Init /\ [][Next]_vars

-----------------------------------------------------------------------------
(* executeTurboPipeline, one invocation at a time, with direct calls of        *)
(* turboExtractKeywords running between its await points                       *)

MaxRuns == 2            \* invocations of executeTurboPipeline in one run

\* "SKILLS\nJava, SQL"
CvSkills ==
    <<"S","K","I","L","L","S","\n","J","a","v","a",","," ","S","Q","L">>

\* "Used kkx.\nEDUCATION\nBSc"
CvEducation ==
    <<"U","s","e","d"," ","k","k","x",".","\n","E","D","U","C","A","T","I","O","N","\n",
      "B","S","c">>

\* "Profile kmx"
CvPlain == <<"P","r","o","f","i","l","e"," ","k","m","x">>

\* "Notes\nskills:" -- a skills header that ends the text
CvSkillsLast == <<"N","o","t","e","s","\n","s","k","i","l","l","s",":">>

PipeCVs ==
    {NoCv, Present(<<>>)} \cup {Present(c) : c \in {CvSkills, CvEducation, CvPlain, CvSkillsLast}}

\* jobInfo.description: absent, too short, with keywords, and long without keywords
PipeJobs ==
    { [absent |-> TRUE, chars |-> <<>>],
      Present(Padded(<<Tok(1), Tok(2)>>, MIN_JOB_LENGTH - 1)),
      Present(SpecialText), Present(CollideA), Present(Padded(<<>>, MIN_JOB_LENGTH + 4)) }

TotalTimes == {TIMING_TOTAL, TIMING_TOTAL + 1}

\* totalTime <= TIMING_TARGETS.TOTAL
MeetsTarget_Strict(totalTime) == totalTime < TIMING_TOTAL

MeetsTarget(totalTime) == totalTime <= TIMING_TOTAL

InitPipeline ==
    /\ keywordCache = <<>>
    /\ ReliableExtractor \in BOOLEAN
    /\ KeywordExtractor \in BOOLEAN
    /\ TailorUniversal \in BOOLEAN
    /\ history = <<>>
    /\ clearedAt = 0
    /\ nextText = 0
    /\ last = NoCall
    /\ pipe = IdlePipe
    /\ tasks = <<>> /\ settled = <<>> /\ wrapped = <<>> /\ rp = [state |-> "idle"]
    /\ fmtIn = [experienceText |-> <<>>, keywords |-> <<>>]
    /\ fmtOut = [done |-> FALSE]
    /\ callArgs = NoArgs /\ callResult = NotCalled

\* executeTurboPipeline(jobInfo, candidateData, baseCV) up to its first await:
\* jdText = jobInfo.description || '' and the call of turboExtractKeywords(jdText)
PipelineStart ==
    /\ pipe.pc = "Idle"
    /\ pipe.run < MaxRuns
    /\ \E job \in PipeJobs, cv \in PipeCVs, throws \in BOOLEAN, elapsed \in Elapsed :
        /\ ExtractEffect(IF job.absent THEN Present(<<>>) ELSE job,
                         DEFAULT_MAX_KEYWORDS, throws, elapsed, FALSE)
        /\ pipe' = [IdlePipe EXCEPT !.pc = "Extracting", !.run = pipe.run + 1,
                                    !.job = job, !.cv = cv, !.startCache = keywordCache,
                                    !.extractOutcome = last'.outcome,
                                    !.keywords = last'.value]

\* the continuation after await turboExtractKeywords: the empty-set test, then
\* turboTailorCV(baseCV, keywordsResult, ...) up to its await
PipelineAfterExtract ==
    /\ pipe.pc = "Extracting"
    /\ IF pipe.extractOutcome = "rejected"
       THEN pipe' = [pipe EXCEPT !.pc = "Rejected"]
       ELSE IF Len(pipe.keywords.all) = 0
       THEN pipe' = [pipe EXCEPT !.pc = "Failed", !.success = FALSE,
                                 !.error = "No keywords extracted"]
       ELSE \E t \in {turboTailorCV(pipe.cv, pipe.keywords, TailorUniversal)} :
                pipe' = [pipe EXCEPT !.pc = "Tailoring", !.waits = t.waits,
                                     !.tailor = [tailoredCV |-> t.tailoredCV,
                                                 injectedKeywords |-> t.injectedKeywords,
                                                 total |-> t.total]]
    /\ UNCHANGED <<cacheVars, globalVars, parallelVars, formatVars, callVars>>

\* the continuation after await turboTailorCV: TailorUniversal.tailorCV, when it was
\* called, fulfils or rejects; then the result object is built
PipelineAfterTailor ==
    /\ pipe.pc = "Tailoring"
    /\ \E rejects \in BOOLEAN, totalTime \in TotalTimes :
        /\ rejects => pipe.waits
        /\ IF rejects
           THEN pipe' = [pipe EXCEPT !.pc = "Rejected"]
           ELSE \E t \in {IF pipe.waits
                          THEN [tailoredCV |-> Present(tailorCV(pipe.cv.chars, pipe.keywords).tailoredCV),
                                injectedKeywords |-> tailorCV(pipe.cv.chars, pipe.keywords).injectedKeywords,
                                total |-> tailorCV(pipe.cv.chars, pipe.keywords).total]
                          ELSE pipe.tailor} :
                    pipe' = [pipe EXCEPT !.pc = "Done", !.success = TRUE, !.tailor = t,
                                         !.totalTime = totalTime,
                                         !.meetsTarget = MeetsTarget(totalTime)]
    /\ UNCHANGED <<cacheVars, globalVars, parallelVars, formatVars, callVars>>

\* the caller has its answer; the next invocation may start
PipelineSettled ==
    /\ pipe.pc \in {"Done", "Failed", "Rejected"}
    /\ pipe' = [IdlePipe EXCEPT !.run = pipe.run]
    /\ UNCHANGED <<cacheVars, globalVars, parallelVars, formatVars, callVars>>

\* another caller's turboExtractKeywords while the pipeline is suspended
ExtractMeanwhile ==
    /\ pipe.pc \in {"Extracting", "Tailoring"}
    /\ \E throws \in BOOLEAN : Extract(Present(CollideB), DEFAULT_MAX_KEYWORDS, throws, 0, FALSE)

NextPipeline ==
    \/ PipelineStart \/ PipelineAfterExtract \/ PipelineAfterTailor
    \/ PipelineSettled \/ ExtractMeanwhile

SpecPipeline == InitPipeline /\ [][NextPipeline]_vars

-----------------------------------------------------------------------------
(* runParallel *)

MaxTasks == 3           \* tasks handed to one runParallel call

\* what task.fn() does: returns a promise that fulfils or rejects, throws before
\* returning, or returns a plain value
Behaviours == {"fulfils", "rejects", "throws", "returns"}

Payloads == {"p", "q"}

TaskLists == UNION {[1..n -> [behaviour : Behaviours, payload : Payloads]] : n \in 0..MaxTasks}

Undefined == "undefined"

PendingPromise == [state |-> "pending", value |-> Undefined, reason |-> Undefined]

\* the async arrow handed to tasks.map, once `await task.fn()` has an outcome
TaskWrapper_NoCatch(task, outcome) ==
    IF outcome = "fulfilled"
    THEN [state |-> "fulfilled", reason |-> Undefined,
          value |-> [success |-> TRUE, result |-> task.payload, error |-> Undefined]]
    ELSE [state |-> "rejected", reason |-> task.payload, value |-> Undefined]

TaskWrapper(task, outcome) ==
    IF outcome = "fulfilled"
    THEN [state |-> "fulfilled", reason |-> Undefined,
          value |-> [success |-> TRUE, result |-> task.payload, error |-> Undefined]]
    ELSE [state |-> "fulfilled", reason |-> Undefined,
          value |-> [success |-> FALSE, result |-> Undefined, error |-> task.payload]]

InitParallel ==
    /\ keywordCache = <<>>
    /\ ReliableExtractor = FALSE /\ KeywordExtractor = FALSE /\ TailorUniversal = FALSE
    /\ history = <<>> /\ clearedAt = 0 /\ nextText = 0
    /\ last = NoCall
    /\ pipe = IdlePipe
    /\ tasks \in TaskLists
    /\ settled = <<>> /\ wrapped = <<>> /\ rp = [state |-> "idle"]
    /\ fmtIn = [experienceText |-> <<>>, keywords |-> <<>>]
    /\ fmtOut = [done |-> FALSE]
    /\ callArgs = NoArgs /\ callResult = NotCalled

\* runParallel(tasks) up to its await: tasks.map starts every wrapper, each runs
\* until task.fn() has returned or thrown
RunParallel ==
    /\ rp.state = "idle"
    /\ wrapped' = [i \in 1..Len(tasks) |->
                      IF tasks[i].behaviour = "throws"
                      THEN TaskWrapper(tasks[i], "threw")
                      ELSE PendingPromise]
    /\ rp' = [state |-> "pending", results |-> <<>>, reason |-> Undefined]
    /\ UNCHANGED <<tasks, settled, cacheVars, globalVars, pipe, formatVars, callVars>>

\* what task i awaits settles, and the wrapper's continuation runs
TaskSettles(i) ==
    /\ rp.state # "idle"
    /\ wrapped[i].state = "pending"
    /\ wrapped' = [wrapped EXCEPT ![i] =
                      TaskWrapper(tasks[i], IF tasks[i].behaviour \in {"fulfils", "returns"}
                                            THEN "fulfilled" ELSE "rejected")]
    /\ settled' = Append(settled, i)
    /\ UNCHANGED <<tasks, rp, cacheVars, globalVars, pipe, formatVars, callVars>>

\* Promise.all over the wrappers: rejects with the first rejection, fulfils with
\* all values in the order of the array once every wrapper has fulfilled
PromiseAll ==
    /\ rp.state = "pending"
    /\ \/ \E i \in 1..Len(wrapped) : wrapped[i].state = "rejected"
       \/ \A i \in 1..Len(wrapped) : wrapped[i].state = "fulfilled"
    /\ rp' = IF \E i \in 1..Len(wrapped) : wrapped[i].state = "rejected"
             THEN [state |-> "rejected", results |-> <<>>,
                   reason |-> wrapped[CHOOSE i \in 1..Len(wrapped) :
                                          wrapped[i].state = "rejected"].reason]
             ELSE [state |-> "fulfilled", reason |-> Undefined,
                   results |-> [i \in 1..Len(wrapped) |-> wrapped[i].value]]
    /\ UNCHANGED <<tasks, settled, wrapped, cacheVars, globalVars, pipe, formatVars, callVars>>

NextParallel ==
    \/ RunParallel
    \/ \E i \in 1..Len(wrapped) : TaskSettles(i)
    \/ PromiseAll

SpecParallel == InitParallel /\ [][NextParallel]_vars

-----------------------------------------------------------------------------
(* formatExperienceWithKeywords (pdf-ats-turbo.js) *)

maxKeywordsPerBullet == 2

\* String.prototype.split('\n')
SplitLines(s) ==
    LET nl == {i \in 1..Len(s) : s[i] = "\n"}
        k == Cardinality(nl)
        pos(j) == CHOOSE i \in nl : Cardinality({x \in nl : x < i}) = j - 1
        first(j) == IF j = 1 THEN 1 ELSE pos(j - 1) + 1
        final(j) == IF j = k + 1 THEN Len(s) ELSE pos(j) - 1
    IN  [j \in 1..(k + 1) |-> SubSeq(s, first(j), final(j))]

\* String.prototype.trim
Trim(s) ==
    LET ink == {i \in 1..Len(s) : ~IsSpace(s[i])}
    IN  IF ink = {} THEN <<>>
        ELSE SubSeq(s, CHOOSE i \in ink : \A j \in ink : i <= j,
                       CHOOSE i \in ink : \A j \in ink : i >= j)

BulletGlyphs == {"-", BulletGlyph, "*"}

\* trimmed.startsWith('-') || trimmed.startsWith(U+2022) || trimmed.startsWith('*')
IsBullet(trimmed) == Len(trimmed) > 0 /\ trimmed[1] \in BulletGlyphs

\* trimmed.replace(/^[-U+2022*]\s*/, '')
StripGlyph(trimmed) ==
    LET ink == {i \in 2..Len(trimmed) : ~IsSpace(trimmed[i])}
    IN  IF ink = {} THEN <<>>
        ELSE SubSeq(trimmed, CHOOSE i \in ink : \A j \in ink : i <= j, Len(trimmed))

\* the keywordsLower.forEach count
ExistingCount(bulletLower, keywords) ==
    Cardinality({i \in 1..Len(keywords) : Includes(bulletLower, ToLowerCase(keywords[i]))})

\* the limit of the while loop on toAdd.length
InjectionRoom_IgnoreExisting(existingCount) == maxKeywordsPerBullet

InjectionRoom(existingCount) == maxKeywordsPerBullet - existingCount

\* the closure state of the map callback before the first line
FreshInjection == [toAdd |-> <<>>, usedKeywords |-> {}, keywordIndex |-> 0]

\* usedKeywords.has(kw.toLowerCase())
AlreadyUsed_Never(kw, usedKeywords) == FALSE

AlreadyUsed(kw, usedKeywords) == ToLowerCase(kw) \in usedKeywords

\* the while loop
RECURSIVE InjectLoop(_, _, _, _)
InjectLoop(bulletLower, keywords, room, st) ==
    IF ~(Len(st.toAdd) < room /\ st.keywordIndex < Len(keywords)) THEN st
    ELSE LET kw == keywords[st.keywordIndex + 1]
             add == /\ ~Includes(bulletLower, ToLowerCase(kw))
                    /\ ~AlreadyUsed(kw, st.usedKeywords)
         IN  InjectLoop(bulletLower, keywords, room,
                 [toAdd |-> IF add THEN Append(st.toAdd, kw) ELSE st.toAdd,
                  usedKeywords |-> IF add THEN st.usedKeywords \cup {ToLowerCase(kw)}
                                   ELSE st.usedKeywords,
                  keywordIndex |-> st.keywordIndex + 1])

Leveraging == <<",", " ", "l", "e", "v", "e", "r", "a", "g", "i", "n", "g", " ">>

Utilizing == <<" ", "u", "t", "i", "l", "i", "z", "i", "n", "g", " ">>

AndWord == <<" ", "a", "n", "d", " ">>

BulletPrefix == <<"-", " ", " ">>

\* the clause appended to a bullet
Weave_KeepPeriod(bulletContent, toAdd) ==
    IF Len(toAdd) = 0 THEN bulletContent
    ELSE IF Len(bulletContent) > 0 /\ bulletContent[Len(bulletContent)] = "."
    THEN bulletContent \o Leveraging \o Join(toAdd, AndWord) \o <<".">>
    ELSE bulletContent \o Utilizing \o Join(toAdd, AndWord)

Weave(bulletContent, toAdd) ==
    IF Len(toAdd) = 0 THEN bulletContent
    ELSE IF Len(bulletContent) > 0 /\ bulletContent[Len(bulletContent)] = "."
    THEN SubSeq(bulletContent, 1, Len(bulletContent) - 1) \o Leveraging
             \o Join(toAdd, AndWord) \o <<".">>
    ELSE bulletContent \o Utilizing \o Join(toAdd, AndWord)

\* one call of the map callback; st carries usedKeywords and keywordIndex
FormatLine(line, keywords, st) ==
    LET trimmed == Trim(line)
        bulletContent == StripGlyph(trimmed)
        bulletLower == ToLowerCase(bulletContent)
        existingCount == ExistingCount(bulletLower, keywords)
        loop == IF existingCount < maxKeywordsPerBullet /\ st.keywordIndex < Len(keywords)
                THEN InjectLoop(bulletLower, keywords, InjectionRoom(existingCount),
                                [st EXCEPT !.toAdd = <<>>])
                ELSE [st EXCEPT !.toAdd = <<>>]
    IN  IF IsBullet(trimmed)
        THEN [text |-> BulletPrefix \o Weave(bulletContent, loop.toAdd), st |-> loop,
              bullet |-> TRUE, content |-> bulletContent, toAdd |-> loop.toAdd]
        ELSE [text |-> line, st |-> st,
              bullet |-> FALSE, content |-> line, toAdd |-> <<>>]

\* lines.map over the first n lines
RECURSIVE FormatLines(_, _, _)
FormatLines(lines, keywords, n) ==
    IF n = 0 THEN [out |-> <<>>, st |-> FreshInjection]
    ELSE LET before == FormatLines(lines, keywords, n - 1)
             this == FormatLine(lines[n], keywords, before.st)
         IN  [out |-> Append(before.out, this), st |-> this.st]

formatExperienceWithKeywords(experienceText, keywords) ==
    IF Len(experienceText) = 0
    THEN [text |-> <<>>, lines |-> <<>>, keywordIndex |-> 0]
    ELSE LET lines == SplitLines(experienceText)
             done == FormatLines(lines, keywords, Len(lines))
         IN  [text |-> Join([i \in 1..Len(lines) |-> done.out[i].text], <<"\n">>),
              lines |-> [i \in 1..Len(lines) |->
                            [bullet |-> done.out[i].bullet, content |-> done.out[i].content,
                             toAdd |-> done.out[i].toAdd]],
              keywordIndex |-> done.st.keywordIndex]

MaxLines == 2           \* lines of an experience text
MaxKeywordList == 3     \* keywords handed to the formatter

ExperienceLines ==
    { <<"-", " ", "s", "q", "l", " ", "a", "p", "i", ".">>,
      <<"*", " ", "t", "e", "a", "m">>,
      <<BulletGlyph, " ", "A", "W", "S", " ", "s", "q", "l">>,
      <<"R", "o", "l", "e">>,
      <<" ", " ", "-", "k", "k", "x", " ">>,
      <<>> }

ExperienceTexts ==
    {Join(ls, <<"\n">>) : ls \in UNION {[1..n -> ExperienceLines] : n \in 0..MaxLines}}

FormatKeywords == {<<"s", "q", "l">>, <<"S", "q", "l">>, <<"A", "W", "S">>, <<"k", "k", "x">>}

KeywordLists == UNION {[1..n -> FormatKeywords] : n \in 0..MaxKeywordList}

Spark == <<"S", "p", "a", "r", "k">>

Kafka == <<"K", "a", "f", "k", "a">>

\* "- Built data pipelines."
BuiltDataPipelines == <<"-", " ", "B", "u", "i", "l", "t", " ", "d", "a", "t", "a", " ", "p", "i", "p", "e", "l", "i", "n", "e", "s", ".">>

\* "* Led the data team"
LedTheDataTeam == <<"*", " ", "L", "e", "d", " ", "t", "h", "e", " ", "d", "a", "t", "a", " ", "t", "e", "a", "m">>

\* bullets of ordinary length with one, two and three unconsumed keywords
ScenarioInputs ==
    [experienceText : {BuiltDataPipelines, LedTheDataTeam,
                       Join(<<BuiltDataPipelines, LedTheDataTeam>>, <<"\n">>)},
     keywords : {<<Spark>>, <<Spark, Kafka>>, <<Spark, Kafka, <<"A", "W", "S">>>>}]

InitFormat ==
    /\ keywordCache = <<>>
    /\ ReliableExtractor = FALSE /\ KeywordExtractor = FALSE /\ TailorUniversal = FALSE
    /\ history = <<>> /\ clearedAt = 0 /\ nextText = 0
    /\ last = NoCall
    /\ pipe = IdlePipe
    /\ tasks = <<>> /\ settled = <<>> /\ wrapped = <<>> /\ rp = [state |-> "idle"]
    /\ fmtIn \in [experienceText : ExperienceTexts, keywords : KeywordLists]
                   \cup ScenarioInputs
    /\ fmtOut = [done |-> FALSE]
    /\ callArgs = NoArgs /\ callResult = NotCalled

\* formatExperienceWithKeywords(experienceText, keywords)
FormatExperience ==
    /\ ~fmtOut.done
    /\ \E r \in {formatExperienceWithKeywords(fmtIn.experienceText, fmtIn.keywords)} :
           fmtOut' = [done |-> TRUE, pass |-> 1, before |-> fmtIn.experienceText,
                      text |-> r.text, lines |-> r.lines, keywordIndex |-> r.keywordIndex]
    /\ UNCHANGED <<fmtIn, cacheVars, globalVars, pipe, parallelVars, callVars>>

\* the same call again, on the text the first call returned
FormatAgain ==
    /\ fmtOut.done
    /\ fmtOut.pass = 1
    /\ \E r \in {formatExperienceWithKeywords(fmtOut.text, fmtIn.keywords)} :
           fmtOut' = [done |-> TRUE, pass |-> 2, before |-> fmtOut.text,
                      text |-> r.text, lines |-> r.lines, keywordIndex |-> r.keywordIndex]
    /\ UNCHANGED <<fmtIn, cacheVars, globalVars, pipe, parallelVars, callVars>>

NextFormat == FormatExperience \/ FormatAgain

SpecFormat == InitFormat /\ [][NextFormat]_vars

-----------------------------------------------------------------------------
(* Calls of the functions that keep no state: every variable of the pipeline,   *)
(* of runParallel and of the formatter stays as the module leaves it            *)

NothingElseRuns ==
    /\ keywordCache = <<>>
    /\ ReliableExtractor = FALSE /\ KeywordExtractor = FALSE /\ TailorUniversal = FALSE
    /\ history = <<>> /\ clearedAt = 0 /\ nextText = 0
    /\ last = NoCall
    /\ pipe = IdlePipe
    /\ tasks = <<>> /\ settled = <<>> /\ wrapped = <<>> /\ rp = [state |-> "idle"]
    /\ fmtIn = [experienceText |-> <<>>, keywords |-> <<>>]
    /\ fmtOut = [done |-> FALSE]

otherVars == <<cacheVars, globalVars, pipe, parallelVars, formatVars>>

-----------------------------------------------------------------------------
(* turboTailorCV without a registered tailorer, called twice *)

MaxTailorKeywords == 17     \* keywords of the set handed to turboTailorCV

\* "Core Skills:\nkkx, kmx\n"
CvCoreSkills == <<"C", "o", "r", "e", " ", "S", "k", "i", "l", "l", "s", ":", "\n", "k", "k", "x", ",", " ", "k", "m", "x", "\n">>

TailorCVs == PipeCVs \cup {Present(CvCoreSkills)}

\* the keyword set the pipeline passes on: what extraction returns for a job text
\* with n distinct terms
TailorKeywords(n) ==
    WithTiming(ultraFastExtraction(Padded(Toks(n), MIN_JOB_LENGTH + 4 * n),
                                   DEFAULT_MAX_KEYWORDS), 0)

InitTailor ==
    /\ NothingElseRuns
    /\ callArgs \in [fn : {"turboTailorCV"}, cvText : TailorCVs,
                 keywords : {TailorKeywords(n) : n \in 0..MaxTailorKeywords}]
    /\ callResult = NotCalled

\* turboTailorCV(cvText, keywords) with no TailorUniversal registered
TailorOnce ==
    /\ ~callResult.done
    /\ \E r \in {turboTailorCV(callArgs.cvText, callArgs.keywords, FALSE)} :
           callResult' = [done |-> TRUE, pass |-> 1, before |-> callArgs.cvText,
                      tailoredCV |-> r.tailoredCV, injectedKeywords |-> r.injectedKeywords]
    /\ UNCHANGED <<callArgs, otherVars>>

\* the same call again, on the text the first call returned
TailorAgain ==
    /\ callResult.done
    /\ callResult.pass = 1
    /\ \E r \in {turboTailorCV(callResult.tailoredCV, callArgs.keywords, FALSE)} :
           callResult' = [done |-> TRUE, pass |-> 2, before |-> callResult.tailoredCV,
                      tailoredCV |-> r.tailoredCV, injectedKeywords |-> r.injectedKeywords]
    /\ UNCHANGED <<callArgs, otherVars>>

NextTailor == TailorOnce \/ TailorAgain

SpecTailor == InitTailor /\ [][NextTailor]_vars

-----------------------------------------------------------------------------
(* formatSkillsSection (pdf-ats-turbo.js) *)

MIN_SKILL_LENGTH == 2
MAX_SKILL_LENGTH == 50

\* String.prototype.split(/[, \n]/): the pieces between single separators
SplitOn(s, seps) ==
    LET at == {i \in 1..Len(s) : s[i] \in seps}
        k == Cardinality(at)
        pos(j) == CHOOSE i \in at : Cardinality({x \in at : x < i}) = j - 1
        first(j) == IF j = 1 THEN 1 ELSE pos(j - 1) + 1
        final(j) == IF j = k + 1 THEN Len(s) ELSE pos(j) - 1
    IN  [j \in 1..(k + 1) |-> SubSeq(s, first(j), final(j))]

\* skillsText.replace(/[U+2022\-*]/g, ',')
GlyphsToCommas(s) == [i \in 1..Len(s) |-> IF s[i] \in BulletGlyphs THEN "," ELSE s[i]]

KeepSkill(w) == Len(w) >= MIN_SKILL_LENGTH /\ Len(w) <= MAX_SKILL_LENGTH

\* skillWords
SkillWords(skillsText) ==
    LET pieces == SplitOn(GlyphsToCommas(skillsText), {",", " ", "\n"})
    IN  SelectSeq([i \in 1..Len(pieces) |-> Trim(pieces[i])], KeepSkill)

\* a Set filled by add() in the order of the list: its iteration order
SetOf(list) == [k \in 1..Len(FirstPlaces(list)) |-> list[FirstPlaces(list)[k]]]

properNouns ==
    { <<"P", "y", "t", "h", "o", "n">>,
      <<"S", "Q", "L">>,
      <<"T", "e", "n", "s", "o", "r", "F", "l", "o", "w">>,
      <<"S", "p", "a", "r", "k">>,
      <<"X", "G", "B", "o", "o", "s", "t">>,
      <<"L", "i", "g", "h", "t", "G", "B", "M">>,
      <<"A", "W", "S">>,
      <<"A", "z", "u", "r", "e">>,
      <<"G", "o", "o", "g", "l", "e", " ", "C", "l", "o", "u", "d", " ", "P", "l", "a", "t", "f", "o", "r", "m">>,
      <<"K", "u", "b", "e", "r", "n", "e", "t", "e", "s">>,
      <<"D", "o", "c", "k", "e", "r">>,
      <<"T", "e", "r", "r", "a", "f", "o", "r", "m">>,
      <<"A", "p", "a", "c", "h", "e", " ", "S", "p", "a", "r", "k">>,
      <<"A", "i", "r", "f", "l", "o", "w">>,
      <<"K", "a", "f", "k", "a">>,
      <<"S", "n", "o", "w", "f", "l", "a", "k", "e">>,
      <<"J", "e", "n", "k", "i", "n", "s">>,
      <<"G", "i", "t", "H", "u", "b", " ", "A", "c", "t", "i", "o", "n", "s">>,
      <<"A", "g", "i", "l", "e">>,
      <<"S", "c", "r", "u", "m">> }

\* proper || kw.toLowerCase()
Cased_AsGiven(kw) ==
    IF \E p \in properNouns : ToLowerCase(p) = ToLowerCase(kw)
    THEN CHOOSE p \in properNouns : ToLowerCase(p) = ToLowerCase(kw)
    ELSE kw

Cased(kw) ==
    IF \E p \in properNouns : ToLowerCase(p) = ToLowerCase(kw)
    THEN CHOOSE p \in properNouns : ToLowerCase(p) = ToLowerCase(kw)
    ELSE ToLowerCase(kw)

\* keywords.forEach over the first n keywords
RECURSIVE AddKeywords(_, _, _)
AddKeywords(existingSkills, keywords, n) ==
    IF n = 0 THEN existingSkills
    ELSE LET before == AddKeywords(existingSkills, keywords, n - 1)
             kwLower == ToLowerCase(keywords[n])
             hasIt == \E i \in 1..Len(before) : ToLowerCase(before[i]) = kwLower
         IN  IF hasIt THEN before ELSE SetOf(Append(before, Cased(keywords[n])))

formatSkillsSection(skillsText, keywords) ==
    LET skillWords == IF skillsText.absent \/ skillsText.chars = <<>> THEN <<>>
                      ELSE SkillWords(skillsText.chars)
        existingSkills == AddKeywords(SetOf(skillWords), keywords, Len(keywords))
    IN  [text |-> Join(existingSkills, CommaSpace), skillWords |-> skillWords,
         existingSkills |-> existingSkills]

MaxSkillKeywords == 3       \* keywords handed to formatSkillsSection

SkillsTexts ==
    { NoCv, Present(<<>>),
      Present(<<"J", "a", "v", "a", ",", " ", "S", "Q", "L">>),
      Present(<<BulletGlyph, " ", "J", "a", "v", "a", "\n", "-", " ", "s", "q", "l", ",", " ", "J", "a", "v", "a">>),
      Present(<<"R", ",", " ", "G", "o", ",", " ", " ", "a", "w", "s">>),
      Present(<<"*", "C", "+", "+", " ", "\n", "j", "a", "v", "a">>) }

SkillKeywords ==
    { <<"p", "y", "t", "h", "o", "n">>,
      <<"a", "w", "s">>,
      <<"d", "o", "c", "k", "e", "r">>,
      <<"k", "u", "b", "e", "r", "n", "e", "t", "e", "s">>,
      <<"P", "Y", "T", "H", "O", "N">>,
      <<"J", "a", "v", "a">>,
      <<"R", "u", "s", "t">>,
      <<"a", "p", "a", "c", "h", "e", " ", "s", "p", "a", "r", "k">> }

\* the keywords of the scenario, in rank order
PythonAwsDockerKubernetes ==
    << <<"p", "y", "t", "h", "o", "n">>,
       <<"a", "w", "s">>,
       <<"d", "o", "c", "k", "e", "r">>,
       <<"k", "u", "b", "e", "r", "n", "e", "t", "e", "s">> >>

InitSkills ==
    /\ NothingElseRuns
    /\ callArgs \in [fn : {"formatSkillsSection"}, skillsText : SkillsTexts,
                     keywords : UNION {[1..n -> SkillKeywords] : n \in 0..MaxSkillKeywords}
                                    \cup {PythonAwsDockerKubernetes}]
    /\ callResult = NotCalled

FormatSkills ==
    /\ ~callResult.done
    /\ \E r \in {formatSkillsSection(callArgs.skillsText, callArgs.keywords)} :
           callResult' = [done |-> TRUE, text |-> r.text, skillWords |-> r.skillWords,
                          existingSkills |-> r.existingSkills]
    /\ UNCHANGED <<callArgs, otherVars>>

NextSkills == FormatSkills

SpecSkills == InitSkills /\ [][NextSkills]_vars

-----------------------------------------------------------------------------
(* parseCVSections (pdf-ats-turbo.js).  Positions are offsets: p characters      *)
(* precede the position p, and text[p + 1] is the character at it.               *)

\* does the literal word, case ignored, match at p
MatchesAt(text, p, word) ==
    /\ p + Len(word) <= Len(text)
    /\ ToLowerCase(SubSeq(text, p + 1, p + Len(word))) = ToLowerCase(word)

\* \s* from p: the position after the whitespace
SkipSpaces(text, p) ==
    CHOOSE j \in p..Len(text) :
        /\ \A k \in (p + 1)..j : IsSpace(text[k])
        /\ j = Len(text) \/ ~IsSpace(text[j + 1])

\* one header spelling, its words separated by \s*, matched at p: the position
\* after it, -1 when it does not match
RECURSIVE HeaderEnd(_, _, _, _)
HeaderEnd(text, p, spelling, n) ==
    IF n = 0 THEN p
    ELSE LET before == HeaderEnd(text, p, spelling, n - 1)
             at == IF n = 1 THEN before ELSE SkipSpaces(text, before)
         IN  IF before < 0 \/ ~MatchesAt(text, at, spelling[n]) THEN -1
             ELSE at + Len(spelling[n])

\* [\s:]*\n from h: the positions of the line breaks it can end with
HeaderBreaks(text, h) ==
    {n \in h..(Len(text) - 1) :
        /\ text[n + 1] = "\n"
        /\ \A k \in (h + 1)..n : IsSpace(text[k]) \/ text[k] = ":"}

\* (?=\n(?:stops|$)) at e
StopsAt(text, e, stops) ==
    /\ e < Len(text)
    /\ text[e + 1] = "\n"
    /\ \/ e + 1 = Len(text)
       \/ \E w \in stops : MatchesAt(text, e + 1, w)

\* the ends the capture ([\s\S]*?) from c can have
CaptureEnds(text, c, stops, toEnd) ==
    IF toEnd THEN {Len(text)} ELSE {e \in c..Len(text) : StopsAt(text, e, stops)}

\* String.prototype.match of one pattern: the leftmost start, its first spelling,
\* the longest [\s:]* and the shortest capture
SectionMatch(text, spellings, stops, toEnd) ==
    LET Breaks(p, a) ==
            LET h == HeaderEnd(text, p, spellings[a], Len(spellings[a]))
            IN  IF h < 0 THEN {}
                ELSE {n \in HeaderBreaks(text, h) :
                         CaptureEnds(text, n + 1, stops, toEnd) # {}}
        Starts == {p \in 0..Len(text) : \E a \in 1..Len(spellings) : Breaks(p, a) # {}}
    IN  IF Starts = {} THEN [found |-> FALSE, text |-> <<>>]
        ELSE LET p == CHOOSE x \in Starts : \A y \in Starts : x <= y
                 As == {a \in 1..Len(spellings) : Breaks(p, a) # {}}
                 a == CHOOSE x \in As : \A y \in As : x <= y
                 Ns == Breaks(p, a)
                 n == CHOOSE x \in Ns : \A y \in Ns : x >= y
                 Es == CaptureEnds(text, n + 1, stops, toEnd)
                 e == CHOOSE x \in Es : \A y \in Es : x <= y
             IN  [found |-> TRUE, text |-> Trim(SubSeq(text, n + 2, e))]

SectionNames == {"summary", "experience", "skills", "education", "certifications"}

\* the header spellings of each pattern, in the order of its alternatives
Spellings(section) ==
    CASE section = "summary" ->
             <<<<<<"P", "R", "O", "F", "E", "S", "S", "I", "O", "N", "A", "L">>, <<"S", "U", "M", "M", "A", "R", "Y">>>>,
               <<<<"S", "U", "M", "M", "A", "R", "Y">>>>, <<<<"P", "R", "O", "F", "I", "L", "E">>>>, <<<<"O", "B", "J", "E", "C", "T", "I", "V", "E">>>>>>
      [] section = "experience" ->
             <<<<<<"E", "X", "P", "E", "R", "I", "E", "N", "C", "E">>>>,
               <<<<"W", "O", "R", "K">>, <<"E", "X", "P", "E", "R", "I", "E", "N", "C", "E">>>>,
               <<<<"E", "M", "P", "L", "O", "Y", "M", "E", "N", "T">>>>>>
      [] section = "skills" ->
             <<<<<<"S", "K", "I", "L", "L", "S">>>>,
               <<<<"T", "E", "C", "H", "N", "I", "C", "A", "L">>, <<"S", "K", "I", "L", "L", "S">>>>,
               <<<<"C", "O", "R", "E">>, <<"S", "K", "I", "L", "L", "S">>>>>>
      [] section = "education" ->
             <<<<<<"E", "D", "U", "C", "A", "T", "I", "O", "N">>>>, <<<<"A", "C", "A", "D", "E", "M", "I", "C">>>>>>
      [] section = "certifications" ->
             <<<<<<"C", "E", "R", "T", "I", "F", "I", "C", "A", "T", "I", "O", "N", "S">>>>,
               <<<<"C", "E", "R", "T", "I", "F", "I", "C", "A", "T", "I", "O", "N">>>>,
               <<<<"L", "I", "C", "E", "N", "S", "E", "S">>>>, <<<<"L", "I", "C", "E", "N", "S", "E">>>>>>

\* the headers the lookahead of each pattern stops before
Stops(section) ==
    CASE section = "summary" ->
             {<<"E", "X", "P", "E", "R", "I", "E", "N", "C", "E">>, <<"W", "O", "R", "K">>,
              <<"S", "K", "I", "L", "L", "S">>, <<"E", "D", "U", "C", "A", "T", "I", "O", "N">>,
              <<"C", "E", "R", "T", "I", "F", "I", "C", "A", "T", "I", "O", "N", "S">>}
      [] section = "experience" ->
             {<<"S", "K", "I", "L", "L", "S">>, <<"E", "D", "U", "C", "A", "T", "I", "O", "N">>,
              <<"C", "E", "R", "T", "I", "F", "I", "C", "A", "T", "I", "O", "N", "S">>}
      [] section = "skills" -> {<<"E", "D", "U", "C", "A", "T", "I", "O", "N">>, <<"C", "E", "R", "T", "I", "F", "I", "C", "A", "T", "I", "O", "N", "S">>}
      [] section = "education" -> {<<"C", "E", "R", "T", "I", "F", "I", "C", "A", "T", "I", "O", "N", "S">>}
      [] section = "certifications" -> {}

\* parseCVSections(cvText): the object it returns, as a function of its keys
parseCVSections(cvText) ==
    IF cvText.absent \/ cvText.chars = <<>> THEN [k \in {} |-> <<>>]
    ELSE [k \in SectionNames |->
             LET match == SectionMatch(cvText.chars, Spellings(k), Stops(k),
                                       k = "certifications")
             IN  IF match.found THEN match.text ELSE <<>>]

\* the parts a text is put together from, one per section
CvBlocks ==
    << <<"S", "U", "M", "M", "A", "R", "Y", "\n", "D", "e", "v", "\n">>,
       <<"W", "o", "r", "k", " ", "E", "x", "p", "e", "r", "i", "e", "n", "c", "e", ":", "\n", "-", " ", "B", "u", "i", "l", "t", " ", "x", ".", "\n">>,
       <<"S", "K", "I", "L", "L", "S", "\n", "J", "a", "v", "a", ",", " ", "S", "Q", "L", "\n">>,
       <<"E", "D", "U", "C", "A", "T", "I", "O", "N", "\n", "\n", "B", "S", "c", "\n">>,
       <<"L", "i", "c", "e", "n", "s", "e", "s", "\n", "A", "W", "S", "\n">> >>

\* the blocks of S, one after the other
BlocksOf(S) ==
    LET upto[i \in 0..Len(CvBlocks)] ==
            IF i = 0 THEN <<>>
            ELSE IF i \in S THEN upto[i - 1] \o CvBlocks[i] ELSE upto[i - 1]
    IN  upto[Len(CvBlocks)]

\* "Ada Lo\n"
NameLine == <<"A", "d", "a", " ", "L", "o", "\n">>

\* texts with every choice of sections, with and without a first line that is no
\* header, with and without the last line break; the education block before the rest
ParseTexts ==
    LET whole == {BlocksOf(S) : S \in SUBSET (1..Len(CvBlocks))}
                     \cup {CvBlocks[4] \o BlocksOf(S) : S \in SUBSET {1, 2, 3}}
        named == whole \cup {NameLine \o t : t \in whole}
        cut == {SubSeq(t, 1, Len(t) - 1) : t \in named \ {<<>>}}
    IN  {NoCv} \cup {Present(t) : t \in named \cup cut}

InitParse ==
    /\ NothingElseRuns
    /\ callArgs \in [fn : {"parseCVSections"}, cvText : ParseTexts]
    /\ callResult = NotCalled

ParseSections ==
    /\ ~callResult.done
    /\ \E r \in {parseCVSections(callArgs.cvText)} :
           callResult' = [done |-> TRUE, sections |-> r]
    /\ UNCHANGED <<callArgs, otherVars>>

NextParse == ParseSections

SpecParse == InitParse /\ [][NextParse]_vars

-----------------------------------------------------------------------------
(* pdf-ats-turbo.js: formatCVForATS and buildPDFText *)

ToUpperChar(c) == IF c \in LowerSet THEN UpperAlpha[IndexIn(c, LowerAlpha)] ELSE c

ToUpperCase(s) == [i \in 1..Len(s) |-> ToUpperChar(s[i])]

\* the headers, after 'CONTACT INFORMATION'
SECTION_ORDER ==
    << <<"P", "R", "O", "F", "E", "S", "S", "I", "O", "N", "A", "L", " ", "S", "U", "M", "M", "A", "R", "Y">>,
       <<"E", "X", "P", "E", "R", "I", "E", "N", "C", "E">>,
       <<"S", "K", "I", "L", "L", "S">>,
       <<"E", "D", "U", "C", "A", "T", "I", "O", "N">>,
       <<"C", "E", "R", "T", "I", "F", "I", "C", "A", "T", "I", "O", "N", "S">> >>

\* the sections in the order buildPDFText visits them
SectionSequence == <<"summary", "experience", "skills", "education", "certifications">>

\* [..].filter(Boolean).join(' | ')
JoinTruthy(parts) == Join(SelectSeq(parts, LAMBDA x : x # <<>>), <<" ", "|", " ">>)

\* a field of candidateData that is absent or empty is <<>>; the snake_case
\* spellings and `location` are read where the camelCase ones and `city` are empty
buildContactSection(candidateData) ==
    LET location == IF candidateData.city # <<>> THEN candidateData.city
                    ELSE <<"O", "p", "e", "n", " ", "t", "o", " ", "r", "e", "l", "o", "c", "a", "t", "i", "o", "n">>
    IN  [name |-> Trim(candidateData.firstName \o <<" ">> \o candidateData.lastName),
         contactLine |-> JoinTruthy(<<candidateData.phone, candidateData.email, location,
                                      <<"o", "p", "e", "n", " ", "t", "o", " ", "r", "e", "l", "o", "c", "a", "t", "i", "o", "n">>>>),
         linksLine |-> JoinTruthy(<<candidateData.linkedin, candidateData.github,
                                    candidateData.portfolio>>)]

\* `parsed.x || ''`, and what the two formatters make of an absent section
FormatParsed(parsed, candidateData, keywords) ==
    LET Parsed(k) == IF k \in DOMAIN parsed THEN parsed[k] ELSE <<>>
        skills == IF "skills" \in DOMAIN parsed THEN Present(parsed["skills"]) ELSE NoCv
    IN  [contact |-> buildContactSection(candidateData),
         summary |-> Parsed("summary"),
         experience |-> formatExperienceWithKeywords(Parsed("experience"), keywords).text,
         skills |-> formatSkillsSection(skills, keywords).text,
         education |-> Parsed("education"),
         certifications |-> Parsed("certifications")]

formatCVForATS(cvText, candidateData, keywords) ==
    FormatParsed(parseCVSections(cvText), candidateData, keywords)

\* a section that pushes no blank line after its body
SectionLines_NoBlank(header, body, blankAfter) ==
    IF body = <<>> THEN <<>> ELSE <<header, body>>

\* the lines one section pushes: nothing when it is empty, no blank line after the last
SectionLines(header, body, blankAfter) ==
    IF body = <<>> THEN <<>>
    ELSE IF blankAfter THEN <<header, body, <<>>>>
    ELSE <<header, body>>

buildPDFText(sections) ==
    LET lines == <<ToUpperCase(sections.contact.name), sections.contact.contactLine,
                   sections.contact.linksLine, <<>>>>
                 \o SectionLines(<<"P", "R", "O", "F", "E", "S", "S", "I", "O", "N", "A", "L", " ", "S", "U", "M", "M", "A", "R", "Y">>,
                                 sections.summary, TRUE)
                 \o SectionLines(<<"E", "X", "P", "E", "R", "I", "E", "N", "C", "E">>, sections.experience, TRUE)
                 \o SectionLines(<<"S", "K", "I", "L", "L", "S">>, sections.skills, TRUE)
                 \o SectionLines(<<"E", "D", "U", "C", "A", "T", "I", "O", "N">>, sections.education, TRUE)
                 \o SectionLines(<<"C", "E", "R", "T", "I", "F", "I", "C", "A", "T", "I", "O", "N", "S">>,
                                 sections.certifications, FALSE)
    IN  Join(lines, <<"\n">>)

NoCandidate ==
    [firstName |-> <<>>, lastName |-> <<>>, phone |-> <<>>, email |-> <<>>, city |-> <<>>,
     linkedin |-> <<>>, github |-> <<>>, portfolio |-> <<>>]

Candidates ==
    { NoCandidate,
      [NoCandidate EXCEPT !.firstName = <<"A", "d", "a">>, !.lastName = <<"L", "o">>,
                          !.email = <<"a", "@", "b", ".", "c">>, !.city = <<"R", "i", "g", "a">>,
                          !.github = <<"g", "h", "/", "a">>] }

BuildKeywords == {<<>>, <<<<"s", "q", "l">>>>, <<<<"A", "W", "S">>, <<"k", "k", "x">>>>}

InitBuild ==
    /\ NothingElseRuns
    /\ callArgs \in [fn : {"generateATSPerfectCV"}, cvText : ParseTexts,
                     candidateData : Candidates, keywords : BuildKeywords]
    /\ callResult = NotCalled

\* generateATSPerfectCV, up to the text it hands to the renderer
BuildDocument ==
    /\ ~callResult.done
    /\ \E formatted \in {formatCVForATS(callArgs.cvText, callArgs.candidateData,
                                        callArgs.keywords)} :
           callResult' = [done |-> TRUE, sections |-> formatted,
                          text |-> buildPDFText(formatted)]
    /\ UNCHANGED <<callArgs, otherVars>>

NextBuild == BuildDocument

SpecBuild == InitBuild /\ [][NextBuild]_vars

-----------------------------------------------------------------------------
(* ultraFastExtraction on texts that repeat their words *)

MaxRankWords == 4       \* words of a text handed to ultraFastExtraction

RankWords == {<<"s", "q", "l">>, <<"j", "a", "v", "a">>, <<"d", "a", "t", "a">>,
              <<"C", "l", "o", "u", "d">>}

\* 'data' seven times, then 'sql' twice
SevenDataTwoSql ==
    [i \in 1..9 |-> IF i <= 7 THEN <<"d", "a", "t", "a">> ELSE <<"s", "q", "l">>]

RankTexts ==
    {Join(words, <<" ">>) :
        words \in UNION {[1..n -> RankWords] : n \in 0..MaxRankWords} \cup {SevenDataTwoSql}}

InitRank ==
    /\ NothingElseRuns
    /\ callArgs \in [fn : {"ultraFastExtraction"}, text : RankTexts,
                     maxKeywords : MaxKeywordsChoices]
    /\ callResult = NotCalled

\* the call, with the Map freq as it stands after the forEach of line 98
RankWordsOf ==
    /\ ~callResult.done
    /\ \E freq \in {CountWords(Tokenize(callArgs.text))} :
           callResult' = [done |-> TRUE, freq |-> freq,
                          keywords |-> ultraFastExtraction(callArgs.text, callArgs.maxKeywords)]
    /\ UNCHANGED <<callArgs, otherVars>>

NextRank == RankWordsOf

SpecRank == InitRank /\ [][NextRank]_vars

-----------------------------------------------------------------------------
(* Properties of the keyword cache and of turboExtractKeywords *)

Keys(cache) == {cache[i].key : i \in 1..Len(cache)}

\* ghost: the insertions since the latest clearCache()
SinceClear == Len(history) - clearedAt

\* ghost: the insertions that clearCache() and eviction have left in the cache
Live == {i \in 1..Len(history) : i > clearedAt /\ i > Len(history) - MAX_CACHE_SIZE}

\* ghost: the live insertion made for a text of this length and first character
LiveFor(chars) ==
    {i \in Live : history[i].length = Len(chars) /\ history[i].first = chars[1]}

\* C1: the cache never holds more than 50 entries; it holds as many as were inserted
\* since the last clear, up to 50, and once 51 distinct fingerprints were inserted
\* it holds exactly 50 and the first-inserted fingerprint is gone.
C1_CacheBound ==
    /\ Len(keywordCache) <= MAX_CACHE_SIZE
    /\ Len(keywordCache) = Min(SinceClear, MAX_CACHE_SIZE)
    /\ ( /\ SinceClear = MAX_CACHE_SIZE + 1
         /\ \A i, j \in (clearedAt + 1)..Len(history) :
                i # j => history[i].key # history[j].key )
       => /\ Len(keywordCache) = MAX_CACHE_SIZE
          /\ history[clearedAt + 1].key \notin Keys(keywordCache)

C1_Witness ==
    /\ clearedAt = 0
    /\ Len(history) = MAX_CACHE_SIZE + 1
    /\ Len(keywordCache) = MAX_CACHE_SIZE
    /\ history[1].key \notin Keys(keywordCache)

\* ghost: the key among those cached that was inserted earliest
OldestKey ==
    LET At(k) == CHOOSE i \in Live : history[i].key = k
    IN  CHOOSE k \in Keys(keywordCache) : \A k2 \in Keys(keywordCache) : At(k) <= At(k2)

\* C2: eviction is FIFO: an insertion into a full cache removes exactly one entry,
\* the one inserted earliest among those present, and a cache hit leaves the cache
\* (and so the entry evicted next) as it was.
C2_FifoEviction ==
    [][ /\ ( Len(history') = Len(history) + 1 /\ Len(keywordCache) = MAX_CACHE_SIZE )
           => /\ Keys(keywordCache) \ Keys(keywordCache') = {OldestKey}
              /\ Keys(keywordCache') \ Keys(keywordCache) = {history'[Len(history')].key}
              /\ Len(keywordCache') = MAX_CACHE_SIZE
        /\ ( last'.op = "extract" /\ last'.path = "hit" )
           => keywordCache' = keywordCache ]_vars

C2_Witness ==
    /\ clearedAt = 0
    /\ Len(history) = MAX_CACHE_SIZE + 3
    /\ history[Len(history)].key = history[1].key
    /\ last.path = "hit"

\* C3: a call with a text of the same length and first character as a text whose
\* extraction was cached and is neither evicted nor cleared returns exactly the
\* keyword set computed then, and no extractor runs.
C3_SameFingerprintServedFromCache ==
    [][ ( /\ last'.op = "extract"
          /\ ~last'.job.absent
          /\ Len(last'.job.chars) >= MIN_JOB_LENGTH
          /\ LiveFor(last'.job.chars) # {} )
        => /\ last'.outcome = "returned"
           /\ last'.source = "none"
           /\ \A i \in LiveFor(last'.job.chars) :
                  KeywordsOf(last'.value) = history[i].result
           /\ history' = history ]_vars

C3_Witness ==
    /\ last.op = "extract"
    /\ last.path = "hit"
    /\ last.job.chars = CollideB
    /\ Tok(3) \in Range(last.value.all)
    /\ last.maxKeywords = SmallMaxKeywords

\* C4: an absent job text, or one shorter than 50 characters, yields the empty
\* keyword set with total 0 and timing 0, whatever the cache holds and whichever
\* extractors are registered.
C4_ShortTextIsEmpty ==
    ( /\ last.op = "extract"
      /\ last.job.absent \/ Len(last.job.chars) < MIN_JOB_LENGTH )
    => /\ last.outcome = "returned"
       /\ last.value = WithTiming(EmptyKeywordSet, 0)
       /\ last.value.total = 0
       /\ last.value.timing = 0

C4_Witness ==
    /\ last.op = "extract"
    /\ ~last.job.absent
    /\ Len(last.job.chars) = MIN_JOB_LENGTH - 1
    /\ Len(Tokenize(last.job.chars)) > 0
    /\ ReliableExtractor
    /\ keywordCache # <<>>
    /\ last.value.total = 0

TierSum(v) == Len(v.highPriority) + Len(v.mediumPriority) + Len(v.lowPriority)

Returned == last.op = "extract" /\ last.outcome = "returned"

\* ghost: the extractor that produced the returned keyword set, also on a hit
ProducedBy ==
    IF last.path = "hit"
    THEN history[CHOOSE i \in Live : history[i].key = last.key].source
    ELSE last.source

\* C5 as stated: on every path the tiers add up to total and the high tier has
\* ceil(0.35 * total) keywords.
C5_AsStated ==
    Returned => /\ TierSum(last.value) = last.value.total
                /\ Len(last.value.highPriority) = Ceil35(last.value.total)

\* C5 as amended: the tiers add up to total on every path; the high tier has
\* ceil(0.35 * total) keywords, except that a set made by the KeywordExtractor
\* branch has min(12, ceil(0.35 * total)).
C5_TierSizes ==
    Returned => /\ TierSum(last.value) = last.value.total
                /\ Len(last.value.highPriority) =
                       IF ProducedBy = "generic"
                       THEN Min(12, Ceil35(last.value.total))
                       ELSE Ceil35(last.value.total)

C5_Witness ==
    /\ Returned
    /\ last.source = "generic"
    /\ last.value.total = DEFAULT_MAX_KEYWORDS
    /\ Len(last.value.highPriority) = 12
    /\ TierSum(last.value) = DEFAULT_MAX_KEYWORDS

C15_SourceByPriority ==
    (last.op = "extract" /\ last.path = "miss") =>
        /\ ReliableExtractor => last.source = "reliable"
        /\ (~ReliableExtractor /\ KeywordExtractor) => last.source = "generic"
        /\ (~ReliableExtractor /\ ~KeywordExtractor) =>
               /\ last.source = "fallback"
               /\ last.outcome = "returned"
               /\ last.value.highPriority \o last.value.mediumPriority
                      \o last.value.lowPriority = last.value.all
               /\ last.value.total = Len(last.value.all)
        /\ last.outcome = "returned" =>
               /\ history[Len(history)].source = last.source
               /\ history[Len(history)].key = last.key
               /\ KeywordsOf(last.value) =
                      IF ReliableExtractor
                      THEN extractReliableKeywords(last.job.chars, last.maxKeywords)
                      ELSE IF KeywordExtractor
                      THEN GenericResult(last.job.chars, last.maxKeywords)
                      ELSE ultraFastExtraction(last.job.chars, last.maxKeywords)

\* both extractors are registered and a miss is answered by the reliable one
C15_Witness ==
    /\ last.op = "extract" /\ last.path = "miss" /\ last.outcome = "returned"
    /\ ReliableExtractor /\ KeywordExtractor
    /\ last.source = "reliable"
    /\ last.value.total > 0

\* no extractor is registered and a miss is answered by the internal fallback
C15_WitnessFallback ==
    /\ last.op = "extract" /\ last.path = "miss" /\ last.outcome = "returned"
    /\ ~ReliableExtractor /\ ~KeywordExtractor
    /\ last.source = "fallback"
    /\ last.value.total > 0

\* C20 (as stated): every call extract(jobText, maxKeywords), whatever the calls
\* before it asked for, returns a keyword set with at most maxKeywords terms in
\* `all`, also when the set is served from the cache.
C20_AtMostMaxKeywords ==
    (last.op = "extract" /\ last.outcome = "returned") =>
        Len(last.value.all) <= last.maxKeywords

\* the same for the calls that miss the cache
C20_AtMostMaxKeywordsOnMiss ==
    (last.op = "extract" /\ last.outcome = "returned" /\ last.path = "miss") =>
        Len(last.value.all) <= last.maxKeywords

-----------------------------------------------------------------------------
(* Properties of executeTurboPipeline *)

Terminal == {"Done", "Failed", "Rejected"}

\* C7 (as stated): the pipeline ends in Failed, with success false and an error
\* reason, exactly when extraction yields an empty keyword set; for every non-empty
\* keyword set it ends in Done with success true.
C7_FailedIffNoKeywords ==
    (pipe.pc \in Terminal /\ pipe.extractOutcome = "returned") =>
        /\ pipe.pc = "Failed" <=> Len(pipe.keywords.all) = 0
        /\ pipe.pc = "Failed" => ~pipe.success /\ pipe.error # ""
        /\ Len(pipe.keywords.all) > 0 => pipe.pc = "Done" /\ pipe.success

\* C8 (as stated): a throwing or rejecting extractor or tailorer is caught; neither
\* turboExtractKeywords nor turboTailorCV nor executeTurboPipeline rejects.
C8_NothingRejects ==
    /\ last.outcome # "rejected"
    /\ pipe.pc # "Rejected"

\* what extraction gives the pipeline for its job text and the cache it started
\* with, had the clock shown e
KeywordsAtTime(e) ==
    KeywordsOf(turboExtractKeywords(pipe.startCache,
                                    IF pipe.job.absent THEN Present(<<>>) ELSE pipe.job,
                                    DEFAULT_MAX_KEYWORDS, ReliableExtractor,
                                    KeywordExtractor, FALSE, e).value)

\* what tailoring gives the pipeline for its text and keywords, had the keyword set
\* carried the timing e
TailoringAtTime(e) ==
    LET keywords == WithTiming(KeywordsOf(pipe.keywords), e)
        t == turboTailorCV(pipe.cv, keywords, TailorUniversal)
    IN  IF t.waits
        THEN [tailoredCV |-> Present(tailorCV(pipe.cv.chars, keywords).tailoredCV),
              injectedKeywords |-> tailorCV(pipe.cv.chars, keywords).injectedKeywords,
              total |-> tailorCV(pipe.cv.chars, keywords).total]
        ELSE [tailoredCV |-> t.tailoredCV, injectedKeywords |-> t.injectedKeywords,
              total |-> t.total]

\* C16: the budget only observes.  meetsTarget is true exactly when the total time
\* is at most 2400 ms; the success flag, the keywords, the tailored text and the
\* injected keywords are those the inputs and the cache give at any elapsed time;
\* and the pipeline stops early only on an empty keyword set or a failing
\* collaborator, never on time.
C16_BudgetOnlyObserves ==
    /\ pipe.pc = "Done" =>
           /\ pipe.meetsTarget <=> pipe.totalTime <= 2400
           /\ pipe.success
           /\ \A e \in Elapsed \cup TotalTimes :
                  /\ KeywordsAtTime(e) = KeywordsOf(pipe.keywords)
                  /\ TailoringAtTime(e) = pipe.tailor
    /\ pipe.pc = "Failed" =>
           \A e \in Elapsed \cup TotalTimes : KeywordsAtTime(e).all = <<>>
    /\ pipe.pc = "Rejected" =>
           \/ pipe.extractOutcome = "rejected"
           \/ pipe.waits /\ TailorUniversal

\* a run over budget that still succeeds with keywords injected
C16_Witness ==
    /\ pipe.pc = "Done"
    /\ pipe.totalTime = 2401
    /\ ~pipe.meetsTarget
    /\ pipe.success
    /\ pipe.keywords.timing > 0
    /\ pipe.tailor.injectedKeywords # <<>>

-----------------------------------------------------------------------------
(* Properties of runParallel *)

\* the result the caller is promised for one task
PerTaskResult(task) ==
    IF task.behaviour \in {"fulfils", "returns"}
    THEN [success |-> TRUE, result |-> task.payload, error |-> Undefined]
    ELSE [success |-> FALSE, result |-> Undefined, error |-> task.payload]

\* C9: runParallel never rejects; in whatever order the tasks settle it returns one
\* result per task, in task order, success with the value of a task that fulfilled
\* and failure with the error of a task that threw or rejected, so that no failing
\* task changes a sibling's result.
C9_RunParallelIsolatesFailures ==
    /\ rp.state # "rejected"
    /\ rp.state = "fulfilled" =>
           /\ Len(rp.results) = Len(tasks)
           /\ \A i \in 1..Len(tasks) : rp.results[i] = PerTaskResult(tasks[i])

\* three tasks, the first rejects after the third has fulfilled, the second throws
C9_Witness ==
    /\ rp.state = "fulfilled"
    /\ Len(tasks) = MaxTasks
    /\ tasks[1].behaviour = "rejects"
    /\ tasks[2].behaviour = "throws"
    /\ tasks[3].behaviour = "fulfils"
    /\ settled = <<3, 1>>
    /\ rp.results[3].success /\ ~rp.results[1].success

-----------------------------------------------------------------------------
(* Properties of formatExperienceWithKeywords *)

\* how many of the keywords a bullet already contains, case ignored
AlreadyIn(content) ==
    Cardinality({ToLowerCase(kw) : kw \in
                    {k \in Range(fmtIn.keywords) :
                        Includes(ToLowerCase(content), ToLowerCase(k))}})

\* C10: in one pass no bullet line gains more than 2 keywords, and a bullet that
\* already contains k of the keywords gains at most max(0, 2 - k).
C10_PerBulletCap ==
    fmtOut.done =>
        \A i \in 1..Len(fmtOut.lines) :
            LET line == fmtOut.lines[i]
            IN  /\ Len(line.toAdd) <= 2
                /\ line.bullet => Len(line.toAdd) <= Max(0, 2 - AlreadyIn(line.content))
                /\ ~line.bullet => Len(line.toAdd) = 0

\* a bullet that contains one keyword gains exactly one although more were left
C10_Witness ==
    /\ fmtOut.done
    /\ fmtOut.keywordIndex < Len(fmtIn.keywords)
    /\ \E i \in 1..Len(fmtOut.lines) :
           /\ fmtOut.lines[i].bullet
           /\ AlreadyIn(fmtOut.lines[i].content) = 1
           /\ Len(fmtOut.lines[i].toAdd) = 1
           /\ i = Len(fmtOut.lines)

\* every keyword a pass injected, bullet after bullet
Injected == 
    LET n == Len(fmtOut.lines)
        upto[i \in 0..n] == IF i = 0 THEN <<>> ELSE upto[i - 1] \o fmtOut.lines[i].toAdd
    IN  upto[n]

\* C11: in one pass every keyword, case ignored, is injected into at most one bullet,
\* so the injections never outnumber the distinct keywords supplied, duplicates and
\* case variants in the list included.
C11_EachKeywordInjectedOnce ==
    fmtOut.done =>
        /\ \A i, j \in 1..Len(Injected) :
               ToLowerCase(Injected[i]) = ToLowerCase(Injected[j]) => i = j
        /\ Len(Injected) <= Cardinality({ToLowerCase(kw) : kw \in Range(fmtIn.keywords)})

\* the list holds a keyword and a case variant of it, the loop reached both with room
\* for two in a bullet that contains neither, and the bullet gained only the first
C11_Witness ==
    /\ fmtOut.done
    /\ fmtOut.pass = 1
    /\ Len(fmtIn.keywords) = 2
    /\ fmtIn.keywords[1] # fmtIn.keywords[2]
    /\ ToLowerCase(fmtIn.keywords[1]) = ToLowerCase(fmtIn.keywords[2])
    /\ fmtOut.keywordIndex = 2
    /\ \E i \in 1..Len(fmtOut.lines) :
           /\ fmtOut.lines[i].bullet
           /\ AlreadyIn(fmtOut.lines[i].content) = 0
           /\ fmtOut.lines[i].toAdd = <<fmtIn.keywords[1]>>

\* the one or two keywords of a clause, as the claim writes them
Terms(toAdd) ==
    IF Len(toAdd) = 1 THEN toAdd[1]
    ELSE toAdd[1] \o <<" ", "a", "n", "d", " ">> \o toAdd[2]

\* text with the clause the claim describes
WithClause(text, toAdd) ==
    IF Len(text) > 0 /\ text[Len(text)] = "."
    THEN SubSeq(text, 1, Len(text) - 1)
             \o <<",", " ", "l", "e", "v", "e", "r", "a", "g", "i", "n", "g", " ">>
             \o Terms(toAdd) \o <<".">>
    ELSE text \o <<" ", "u", "t", "i", "l", "i", "z", "i", "n", "g", " ">> \o Terms(toAdd)

\* line i of the text a pass was given, and of the text it returned
LineBefore(i) == SplitLines(fmtOut.before)[i]

LineAfter(i) == SplitLines(fmtOut.text)[i]

\* C13 (as stated): a bullet that gains keywords comes out as the original bullet
\* with only the trailing clause added; "- Built data pipelines." with Spark and
\* Kafka comes out as "- Built data pipelines, leveraging Spark and Kafka.".
C13_AsStated ==
    fmtOut.done =>
        \A i \in 1..Len(fmtOut.lines) :
            fmtOut.lines[i].toAdd # <<>> =>
                LineAfter(i) = WithClause(Trim(LineBefore(i)), fmtOut.lines[i].toAdd)

\* C13 (amended): a bullet that gains keywords comes out as a hyphen and two spaces,
\* then the bullet's content (the trimmed line without its glyph and the whitespace
\* after it) with only the trailing clause added; "- Built data pipelines." with
\* Spark and Kafka comes out as "-  Built data pipelines, leveraging Spark and Kafka.".
C13_ClauseAfterNormalisedBullet ==
    fmtOut.done =>
        /\ fmtOut.before # <<>> => Len(SplitLines(fmtOut.text)) = Len(fmtOut.lines)
        /\ \A i \in 1..Len(fmtOut.lines) :
               fmtOut.lines[i].toAdd # <<>> =>
                   /\ Len(fmtOut.lines[i].toAdd) \in {1, 2}
                   /\ LineAfter(i) = <<"-", " ", " ">>
                          \o WithClause(StripGlyph(Trim(LineBefore(i))), fmtOut.lines[i].toAdd)
        /\ (fmtOut.pass = 1 /\ fmtIn.experienceText = BuiltDataPipelines
                /\ fmtIn.keywords = <<Spark, Kafka>>) =>
               fmtOut.text = <<"-", " ", " ", "B", "u", "i", "l", "t", " ", "d", "a", "t", "a", " ", "p", "i", "p", "e", "l", "i", "n", "e", "s", ",", " ", "l", "e", "v", "e", "r", "a", "g", "i", "n", "g", " ", "S", "p", "a", "r", "k", " ", "a", "n", "d", " ",
                   "K", "a", "f", "k", "a", ".">>

\* the scenario of the claim: both keywords go into the bullet that ends in a period
C13_Witness ==
    /\ fmtOut.done
    /\ fmtOut.pass = 1
    /\ fmtIn.experienceText = BuiltDataPipelines
    /\ fmtIn.keywords = <<Spark, Kafka>>
    /\ fmtOut.lines[1].toAdd = <<Spark, Kafka>>

-----------------------------------------------------------------------------
(* Properties of tailoring *)

\* C12 (as stated): tailoring a second time, with the same keyword set, the text
\* the first run returned injects no keyword and leaves the text unchanged.
C12_TailoringIsIdempotent ==
    (callResult.done /\ callResult.pass = 2) =>
        /\ callResult.injectedKeywords = <<>>
        /\ callResult.tailoredCV = callResult.before

\* the same for the experience pass
C12_ExperiencePassIsIdempotent ==
    (fmtOut.done /\ fmtOut.pass = 2) =>
        /\ Injected = <<>>
        /\ fmtOut.text = fmtOut.before

\* the keywords of the set that the text handed to the call does not hold
MissingBefore ==
    SelectSeq(callArgs.keywords.all,
              LAMBDA kw : ~Includes(ToLowerCase(callResult.before.chars), ToLowerCase(kw)))

\* the call reached the fallback and keywords are missing
FallbackWithMissing ==
    /\ callResult.done
    /\ ~NothingToTailor(callResult.before, callArgs.keywords)
    /\ MissingBefore # <<>>

\* no line of the text is a skills header
NoSkillsHeader == HeaderIndex(callResult.before.chars, SkillsHeaders) = -1

\* a line is a skills header and no line break follows it
SkillsHeaderWithoutBreak ==
    /\ HeaderIndex(callResult.before.chars, SkillsHeaders) >= 0
    /\ \A i \in (HeaderIndex(callResult.before.chars, SkillsHeaders) + 1)
                    ..Len(callResult.before.chars) :
           callResult.before.chars[i] # "\n"

Unchanged ==
    /\ callResult.tailoredCV = callResult.before
    /\ callResult.injectedKeywords = <<>>

\* C21 (as stated): with keywords missing and no skills anchor in the text (no
\* skills header line, or a skills header with no line break after it) the fallback
\* returns the text unchanged and an empty list of injected keywords.
C21_AsStated ==
    (FallbackWithMissing /\ (NoSkillsHeader \/ SkillsHeaderWithoutBreak)) => Unchanged

\* C21: with keywords missing, a skills header with no line break after it leaves
\* the text unchanged and the injected list empty; with no skills header line at
\* all the fallback writes a section "\nSKILLS\n<keywords>\n\n" with the first
\* MAX_SKILLS_ADDED missing keywords, before the education header if there is one
\* and at the end of the text otherwise, and returns these keywords as injected.
C21_UnchangedOnlyWithoutBreak ==
    FallbackWithMissing =>
        LET before == callResult.before.chars
            added == SubSeq(MissingBefore, 1, Min(MAX_SKILLS_ADDED, Len(MissingBefore)))
            section == <<"\n", "S", "K", "I", "L", "L", "S", "\n">> \o Join(added, CommaSpace)
                           \o <<"\n", "\n">>
            education == HeaderIndex(before, EducationHeaders)
            place == IF education >= 0 THEN education ELSE Len(before)
        IN  /\ SkillsHeaderWithoutBreak => Unchanged
            /\ NoSkillsHeader =>
                   /\ callResult.injectedKeywords = added
                   /\ callResult.tailoredCV.chars =
                          SubSeq(before, 1, place) \o section
                              \o SubSeq(before, place + 1, Len(before))
                   /\ ~Unchanged

\* keywords are missing from a text whose last line is a skills header
C21_Witness ==
    /\ FallbackWithMissing
    /\ SkillsHeaderWithoutBreak
    /\ Len(MissingBefore) > MAX_SKILLS_ADDED

\* keywords are missing from a text without a skills header
C21_WitnessNoHeader ==
    /\ FallbackWithMissing
    /\ NoSkillsHeader
    /\ HeaderIndex(callResult.before.chars, EducationHeaders) > 0
    /\ callResult.injectedKeywords # <<>>

-----------------------------------------------------------------------------
(* Properties of formatSkillsSection *)

\* the casing a keyword is added in: the table's when it has one, lower case otherwise
TableCasing(kw) ==
    IF \E p \in properNouns : ToLowerCase(p) = ToLowerCase(kw)
    THEN CHOOSE p \in properNouns : ToLowerCase(p) = ToLowerCase(kw)
    ELSE ToLowerCase(kw)

\* is w, case ignored, one of the words of list
AmongIgnoringCase(w, list) == \E i \in 1..Len(list) : ToLowerCase(list[i]) = ToLowerCase(w)

\* C14: the output is the insertion-ordered unique set joined by ", ": first the
\* existing skill tokens in first-seen order and casing, then in keyword rank order
\* each keyword that is not among them (case ignored), once, in the casing of the
\* proper-noun table when it has the keyword and in lower case otherwise; "Java, SQL"
\* with python, aws, docker, kubernetes gives
\* "Java, SQL, Python, AWS, Docker, Kubernetes".
C14_SkillsThenMissingKeywords ==
    callResult.done =>
        LET items == callResult.existingSkills
            words == callResult.skillWords
            kws == callArgs.keywords
            old == Cardinality(Range(words))
            wanted == {i \in 1..Len(kws) :
                          /\ ~AmongIgnoringCase(kws[i], words)
                          /\ \A j \in 1..(i - 1) : ToLowerCase(kws[j]) # ToLowerCase(kws[i])}
        IN  /\ callResult.text = Join(items, <<",", " ">>)
            /\ \A i, j \in 1..Len(items) : items[i] = items[j] => i = j
            /\ Len(items) = old + Cardinality(wanted)
            /\ \A i \in 1..Len(words) :
                   (\A j \in 1..(i - 1) : words[j] # words[i]) =>
                       items[Cardinality({words[j] : j \in 1..i})] = words[i]
            /\ \A i \in wanted :
                   items[old + Cardinality({j \in wanted : j <= i})] = TableCasing(kws[i])
            /\ (callArgs.skillsText = Present(<<"J", "a", "v", "a", ",", " ", "S", "Q", "L">>)
                    /\ kws = PythonAwsDockerKubernetes) =>
                   callResult.text = <<"J", "a", "v", "a", ",", " ", "S", "Q", "L", ",", " ", "P",
                       "y", "t", "h", "o", "n", ",", " ", "A", "W", "S", ",", " ",
                       "D", "o", "c", "k", "e", "r", ",", " ", "K", "u", "b", "e",
                       "r", "n", "e", "t", "e", "s">>

\* the scenario of the claim
C14_Witness ==
    /\ callResult.done
    /\ callArgs.skillsText = Present(<<"J", "a", "v", "a", ",", " ", "S", "Q", "L">>)
    /\ callArgs.keywords = PythonAwsDockerKubernetes
    /\ Len(callResult.existingSkills) = 6

\* a repeated skill, a keyword that is a skill in another casing, a keyword given
\* twice in two casings and a keyword outside the table
C14_WitnessMixed ==
    /\ callResult.done
    /\ Len(callResult.skillWords) > Cardinality(Range(callResult.skillWords))
    /\ callArgs.keywords = <<<<"P", "Y", "T", "H", "O", "N">>, <<"J", "a", "v", "a">>, <<"R", "u", "s", "t">>>>
    /\ Len(callResult.existingSkills) = Cardinality(Range(callResult.skillWords)) + 2

-----------------------------------------------------------------------------
(* Properties of parseCVSections *)

\* does one of the section's header spellings occur in the text
HeaderFound(cvText, section) ==
    /\ ~cvText.absent
    /\ \E p \in 0..Len(cvText.chars), a \in 1..Len(Spellings(section)) :
           HeaderEnd(cvText.chars, p, Spellings(section)[a], Len(Spellings(section)[a])) >= 0

\* C17 (as stated): for every text, empty or absent included, the result has all
\* five sections, and a section whose header is not found is the empty string.
C17_AllFiveSections ==
    callResult.done =>
        /\ DOMAIN callResult.sections = SectionNames
        /\ \A k \in SectionNames :
               ~HeaderFound(callArgs.cvText, k) => callResult.sections[k] = <<>>

-----------------------------------------------------------------------------
(* Properties of buildPDFText *)

\* the non-empty sections, in canonical order
PresentSections(sections) == SelectSeq(SectionSequence, LAMBDA k : sections[k] # <<>>)

\* a header line and, on the next line, the body
Block(sections, i) == SECTION_ORDER[i] \o <<"\n">> \o sections[SectionSequence[i]]

\* the blocks of the non-empty sections in canonical order, one blank line between
\* two that follow each other
CanonicalBody(sections) ==
    LET shown == SelectSeq([i \in 1..Len(SectionSequence) |-> i],
                           LAMBDA i : sections[SectionSequence[i]] # <<>>)
    IN  Join([j \in 1..Len(shown) |-> Block(sections, shown[j])], <<"\n", "\n">>)

\* the three contact lines, each ended by a line break
ContactLines(contact) ==
    ToUpperCase(contact.name) \o <<"\n">> \o contact.contactLine \o <<"\n">>
        \o contact.linksLine \o <<"\n">>

\* C18: after the contact lines the document is, in canonical order, the header
\* line of every non-empty section and of no other, each immediately followed by
\* its body, with exactly one blank line between consecutive sections (and at most
\* one line break after the last).
C18_CanonicalDocument ==
    callResult.done =>
        LET sections == callResult.sections
            rest == CanonicalBody(sections)
        IN  \E tail \in {<<>>, <<"\n">>} :
                callResult.text =
                    ContactLines(sections.contact)
                        \o (IF rest = <<>> THEN <<>> ELSE <<"\n">> \o rest \o tail)

\* a document with some sections and without others, certifications the last
C18_Witness ==
    /\ callResult.done
    /\ Len(PresentSections(callResult.sections)) = 3
    /\ callResult.sections.summary = <<>>
    /\ callResult.sections.certifications # <<>>
    /\ callResult.sections.contact.name # <<>>

\* a document whose last section is not the certifications
C18_WitnessNoCertifications ==
    /\ callResult.done
    /\ Len(PresentSections(callResult.sections)) >= 2
    /\ callResult.sections.certifications = <<>>

-----------------------------------------------------------------------------
(* Properties of the ranking of ultraFastExtraction *)

\* how often a token occurs among the tokens of the text
Occurrences(tokens, w) == Cardinality({i \in 1..Len(tokens) : tokens[i] = w})

\* occurrences times 3 for a domain term, times 1 for any other token
StatedScore(tokens, w) == Occurrences(tokens, w) * (IF w \in techBoost THEN 3 ELSE 1)

\* where a token is met first
FirstMet(tokens, w) == CHOOSE i \in 1..Len(tokens) : tokens[i] = w /\ \A j \in 1..(i - 1) : tokens[j] # w

\* a before b in the stated ranking
RanksBefore(tokens, a, b) ==
    \/ StatedScore(tokens, a) > StatedScore(tokens, b)
    \/ /\ StatedScore(tokens, a) = StatedScore(tokens, b)
       /\ FirstMet(tokens, a) < FirstMet(tokens, b)

\* C19 (as stated): each token's score is its number of occurrences times 3 for a
\* domain term and times 1 otherwise, and the result lists the distinct tokens by
\* descending score, equal scores in the order the tokens were first met.
C19_ScoreIsCountTimesBoost ==
    callResult.done =>
        LET tokens == Tokenize(callArgs.text)
            all == callResult.keywords.all
        IN  /\ \A k \in 1..Len(callResult.freq) :
                   callResult.freq[k].value = StatedScore(tokens, callResult.freq[k].key)
            /\ \A i, j \in 1..Len(all) : i < j => RanksBefore(tokens, all[i], all[j])
            /\ \A i \in 1..Len(all), k \in 1..Len(tokens) :
                   tokens[k] \notin Range(all) => RanksBefore(tokens, all[i], tokens[k])
            /\ Len(all) = Min(callArgs.maxKeywords, Cardinality(Range(tokens)))

\* the order of the result alone
C19_OrderAsStated ==
    callResult.done =>
        \A i, j \in 1..Len(callResult.keywords.all) :
            i < j => RanksBefore(Tokenize(callArgs.text), callResult.keywords.all[i],
                                 callResult.keywords.all[j])

\* the stated ranking with the score the code keeps
C19_OrderByKeptScore ==
    callResult.done =>
        LET all == callResult.keywords.all
            Kept(w) == (CHOOSE k \in 1..Len(callResult.freq) : callResult.freq[k].key = w)
            Before(a, b) == \/ callResult.freq[Kept(a)].value > callResult.freq[Kept(b)].value
                            \/ /\ callResult.freq[Kept(a)].value = callResult.freq[Kept(b)].value
                               /\ Kept(a) < Kept(b)
        IN  /\ \A i, j \in 1..Len(all) : i < j => Before(all[i], all[j])
            /\ \A k \in 1..Len(callResult.freq) :
                   callResult.freq[k].value =
                       CountWord(Occurrences(Tokenize(callArgs.text), callResult.freq[k].key),
                                 IF callResult.freq[k].key \in techBoost THEN 3 ELSE 1)

====
